---- MODULE Spec2Model ----
(***************************************************************************)
(* Verification model of the Ingenic JZ47xx device models (QEMU plug-ins): *)
(* interrupt controller (hw/intc/ingenic_intc.c), timer/counter unit       *)
(* (hw/timer/ingenic_tcu.c), DMA controller (hw/dma/ingenic_dmac.c) and    *)
(* the register decoders of the other register blocks.                     *)
(*                                                                         *)
(* Registers that are pure bit masks are modelled as the set of the bit    *)
(* numbers that are 1 (a uint32_t is a subset of 0..31), so that masks     *)
(* with bit 31 set need no integer wider than TLC's.                       *)
(***************************************************************************)
EXTENDS Integers, FiniteSets, Sequences, TLC

\* ------------------------------------------------------------------------
\* Bit-mask helpers
\* ------------------------------------------------------------------------

\* The bits of a non-negative number below 2^31.
BitsOf(n) == {i \in 0..30 : (n \div (2^i)) % 2 = 1}

\* The number a set of bits (all below 31) stands for.
RECURSIVE NumOf(_)
NumOf(b) == IF b = {} THEN 0
            ELSE LET i == CHOOSE x \in b : TRUE IN (2^i) + NumOf(b \ {i})

Word32 == 0..31

Min(a, b) == IF a < b THEN a ELSE b

\* ========================================================================
\* Interrupt controller: hw/intc/ingenic_intc.c
\* ========================================================================

VARIABLES
    icsr,       \* IngenicIntc.icsr: source register
    icmr,       \* IngenicIntc.icmr: mask register
    icpr,       \* IngenicIntc.icpr: pending register
    intc_irq,   \* level last driven on IngenicIntc.irq (the line to the CPU)
    intc_stop,  \* qmp_stop() has been called by the last INTC access
    intc_op     \* the last INTC operation, for stating per-operation effects

intc_vars == <<icsr, icmr, icpr, intc_irq, intc_stop, intc_op>>

REG_ICSR  == 0
REG_ICMR  == 4
REG_ICMSR == 8
REG_ICMCR == 12
REG_ICPR  == 16

\* Highest of the low input lines the environment toggles (line 31 is
\* toggled as well, for the top bit of the registers).
MaxIntcLine == 1

IntcLines == (0..MaxIntcLine) \cup {31}

\* Values the guest writes to a mask register.
IntcData == {{}} \cup {{n} : n \in IntcLines} \cup {Word32}

\* Register offsets the guest accesses (0x14 decodes to no register).
IntcAddrs == {REG_ICSR, REG_ICMR, REG_ICMSR, REG_ICMCR, REG_ICPR, 20}


\* intc_update(): recompute icpr; drive the line when icpr changed.
IntcUpdate(sr, mr, pr, line) ==
    LET npr == sr \ mr IN
    [icpr |-> npr, irq |-> IF npr # pr THEN npr # {} ELSE line]

\* ICMSR with the written bits cleared instead of set.
IntcMaskSetMutant(mr, data) == mr \ data

\* case REG_ICMSR: s->icmr |= data
IntcMaskSet(mr, data) == mr \cup data

\* case REG_ICMCR: s->icmr &= ~data
IntcMaskClear(mr, data) == mr \ data

\* ingenic_intc_reset(): registers to their initial values, line untouched.
IntcReset ==
    /\ icsr' = {}
    /\ icmr' = Word32
    /\ icpr' = {}
    /\ intc_stop' = FALSE
    /\ intc_op' = [op |-> "reset", n |-> 0, level |-> 0, data |-> {}]
    /\ UNCHANGED intc_irq

\* ingenic_intc_write()
IntcWrite(addr, data) ==
    /\ intc_op' = [op |-> "write", n |-> addr, level |-> 0, data |-> data]
    /\ CASE addr = REG_ICMSR ->
              LET mr == IntcMaskSet(icmr, data)
                  u  == IntcUpdate(icsr, mr, icpr, intc_irq) IN
              /\ icmr' = mr
              /\ icpr' = u.icpr
              /\ intc_irq' = u.irq
              /\ intc_stop' = FALSE
              /\ UNCHANGED icsr
         [] addr = REG_ICMCR ->
              LET mr == IntcMaskClear(icmr, data)
                  u  == IntcUpdate(icsr, mr, icpr, intc_irq) IN
              /\ icmr' = mr
              /\ icpr' = u.icpr
              /\ intc_irq' = u.irq
              /\ intc_stop' = FALSE
              /\ UNCHANGED icsr
         [] addr = REG_ICPR ->
              /\ intc_stop' = FALSE
              /\ UNCHANGED <<icsr, icmr, icpr, intc_irq>>
         [] OTHER ->
              /\ intc_stop' = TRUE
              /\ UNCHANGED <<icsr, icmr, icpr, intc_irq>>

\* ingenic_intc_read(): only the default branch has an effect (VM stop).
IntcRead(addr) ==
    /\ intc_op' = [op |-> "read", n |-> addr, level |-> 0, data |-> {}]
    /\ intc_stop' = (addr \notin {REG_ICSR, REG_ICMR, REG_ICPR})
    /\ UNCHANGED <<icsr, icmr, icpr, intc_irq>>

\* intc_irq(): input line n changes to level.
IntcIrq(n, level) ==
    LET sr == IF level = 1 THEN icsr \cup {n} ELSE icsr \ {n}
        u  == IntcUpdate(sr, icmr, icpr, intc_irq) IN
    /\ icsr' = sr
    /\ icpr' = u.icpr
    /\ intc_irq' = u.irq
    /\ intc_stop' = FALSE
    /\ intc_op' = [op |-> "irq", n |-> n, level |-> level, data |-> {}]
    /\ UNCHANGED icmr

\* State after construction and the reset QEMU performs at start-up.
IntcInit ==
    /\ icsr = {}
    /\ icmr = Word32
    /\ icpr = {}
    /\ intc_irq = FALSE
    /\ intc_stop = FALSE
    /\ intc_op = [op |-> "init", n |-> 0, level |-> 0, data |-> {}]

IntcGuestWrite == \E addr \in IntcAddrs, data \in IntcData : IntcWrite(addr, data)
IntcGuestRead  == \E addr \in IntcAddrs : IntcRead(addr)
IntcLine       == \E n \in IntcLines, level \in {0, 1} : IntcIrq(n, level)

IntcNext ==
    \/ IntcGuestWrite
    \/ IntcGuestRead
    \/ IntcLine
    \/ IntcReset

\* ========================================================================
\* Timer/counter unit: hw/timer/ingenic_tcu.c
\* ========================================================================

VARIABLES
    now,        \* QEMU_CLOCK_VIRTUAL, in ns
    tcu,        \* the IngenicTcu object: registers, timers, interrupt lines
    tcu_op,     \* the last TCU operation and the counter updates it ran
    tcu_ref     \* per timer: time and count at which it was last started

tcu_vars == <<now, tcu, tcu_op, tcu_ref>>

REG_TER   == 16
REG_TESR  == 20
REG_TECR  == 24
REG_TSR   == 28
REG_TFR   == 32
REG_TFSR  == 36
REG_TFCR  == 40
REG_TSSR  == 44
REG_TMR   == 48
REG_TMSR  == 52
REG_TMCR  == 56
REG_TSCR  == 60
REG_TDFR0 == 64
REG_TDHR0 == 68
REG_TCNT0 == 72
REG_TCSR0 == 76
REG_OSTDR  == 224
REG_OSTCNT == 232
REG_OSTCSR == 236
REG_TSTR  == 240
REG_TSTSR == 244
REG_TSTCR == 248

\* Number of general-purpose timers (IngenicTcu.tcu.timer[6]).
INGENIC_TCU_MAX_TIMERS == 6
\* Key of the operating-system timer (its TER/TFR bit) among the timers.
OST == 15
TimerIds == (0..(INGENIC_TCU_MAX_TIMERS - 1)) \cup {OST}

\* The "model" property: 0x4755 (default) or another SoC.
MODEL_4755 == 18261
MODEL_4740 == 18240

\* Time scale of the model.  The source counts time in ns and clock periods
\* in units of 2^-32 ns (CLOCK_PERIOD_FROM_NS(1) = 2^32), and moves a
\* timer's time base once 1 s (1000000000 ns) has passed.  The model keeps
\* the arithmetic and scales both: PeriodUnit period units make one ns, and
\* the time base is moved after SecNs ns.
PeriodUnit == 2
SecNs == 4
\* Periods of the CGU clocks, in period units (clock_get()).
ClkExt == 3
ClkRtc == 5
ClkPclk == 2
\* Virtual time explored: for the counting behaviour, for the interrupt
\* outputs.
MaxNow == 5
MaxNowIrq == 2

NoTimer == -1

\* tmr->irq_top_mask / irq_comp_mask, set in ingenic_tcu_init().
IrqTopMask(id)  == IF id = OST THEN {15} ELSE {id}
IrqCompMask(id) == IF id = OST THEN {15} ELSE {16 + id}


\* update_irq(): drive the three outputs when TFR & ~TMR changed.
TcuUpdateIrq(s) ==
    LET irq == s.tfr \ s.tmr IN
    IF irq # s.irq_state
    THEN [s EXCEPT !.irq_state = irq,
                   !.irq = IF s.model = MODEL_4755
                           THEN << irq \cap BitsOf(\H00008000) # {},
                                   irq \cap BitsOf(\H00200020) # {},
                                   irq \cap BitsOf(\H001f001f) # {} >>
                           ELSE << irq \cap BitsOf(\H00010001) # {},
                                   irq \cap BitsOf(\H00020002) # {},
                                   irq \cap BitsOf(\H00fc00fc) # {} >>]
    ELSE s

\* tmr_update_clk_period(): clock source and prescaler from TCSR.
ClkDivMap == <<1, 4, 16, 64, 256, 1024, 0, 0>>
TmrClkPeriod(tcsr) ==
    LET clkdiv == ClkDivMap[NumOf(tcsr \cap {3, 4, 5}) \div 8 + 1]
        clock  == IF 2 \in tcsr THEN ClkExt
                  ELSE IF 1 \in tcsr THEN ClkRtc
                  ELSE IF 0 \in tcsr THEN ClkPclk
                  ELSE 0
    IN IF clkdiv # 0 /\ clock # 0 THEN clock * clkdiv ELSE 0

\* The for(;;) loop of tmr_update_cnt() checking the matches only once all
\* ticks are counted: a plausible slip.
TmrCountLoopMutant(cnt, top, comp, n, half, full) ==
    LET c == IF cnt <= top THEN (cnt + n) % (top + 1) ELSE cnt + n IN
    [cnt |-> c, half |-> half \/ comp = c, full |-> full \/ top = c]

\* The for(;;) loop of tmr_update_cnt(): check HALF and FULL at the current
\* count, then count one tick, delta_ticks times.
RECURSIVE TmrCountLoop(_, _, _, _, _, _)
TmrCountLoop(cnt, top, comp, n, half, full) ==
    LET h == half \/ comp = cnt
        f == full \/ top = cnt
    IN IF n = 0
       THEN [cnt |-> cnt, half |-> h, full |-> f]
       ELSE TmrCountLoop(IF top = cnt THEN 0 ELSE cnt + 1, top, comp, n - 1, h, f)

\* tmr_update_cnt(): bring the counter of timer id up to the current time.
\* s.upd collects, for the operation in progress, what each update did.
\* s.fault records that the emulator stopped working: "div0" for an integer
\* division by zero, "spin" for the loop started with a wrapped-around
\* tick count.
TmrUpdateCnt(s, id, t) ==
    LET tm == s.timer[id] IN
    IF s.fault # "none" THEN s
    ELSE IF tm.enabled /\ tm.clk_period = 0
    THEN [s EXCEPT !.fault = "div0"]    \* division by zero
    ELSE
    LET delta0 == t - tm.qts_start_ns
        rebase == tm.enabled /\ delta0 >= SecNs
        start  == IF rebase
                  THEN tm.qts_start_ns + (tm.clk_ticks * tm.clk_period) \div PeriodUnit
                  ELSE tm.qts_start_ns
        ticks0 == IF rebase THEN 0 ELSE tm.clk_ticks
        delta_ns == t - start
        delta_ticks == IF tm.enabled
                       THEN (delta_ns * PeriodUnit) \div tm.clk_period - ticks0
                       ELSE 0
        r == TmrCountLoop(tm.cnt, tm.top, tm.comp, delta_ticks, FALSE, FALSE)
        irq_mask == (IF r.half THEN IrqCompMask(id) ELSE {})
                    \cup (IF r.full THEN IrqTopMask(id) ELSE {})
        s1 == [s EXCEPT !.timer[id].qts_start_ns = start,
                        !.timer[id].clk_ticks = ticks0 + delta_ticks,
                        !.timer[id].cnt = r.cnt,
                        !.upd = Append(@, [id |-> id, c0 |-> tm.cnt, d |-> delta_ticks,
                                           top |-> tm.top, comp |-> tm.comp,
                                           enabled |-> tm.enabled])]
    IN IF delta_ticks < 0
       THEN [s EXCEPT !.fault = "spin"] \* uint64_t delta_ticks: ~2^64 iterations
       ELSE IF irq_mask # {}
       THEN TcuUpdateIrq([s1 EXCEPT !.tfr = @ \cup irq_mask])
       ELSE s1

\* timer_mod_anticipate_ns(): expire at target, or earlier if already armed
\* for an earlier time.
TimerModAnticipate(qts, target) ==
    IF qts = NoTimer THEN target ELSE Min(qts, target)

\* tmr_enable(tmr, false)
TmrDisable(s, id, t) ==
    LET s1 == TmrUpdateCnt(s, id, t) IN
    IF s1.fault # "none" THEN s1
    ELSE [s1 EXCEPT !.timer[id].qts = NoTimer, !.timer[id].enabled = FALSE]

\* tmr_schedule(): arm the host timer for the next HALF or FULL match.
TmrSchedule(s, id, t) ==
    LET tm == s.timer[id]
        full == tm.top
        half == tm.comp
        count == tm.cnt
    IN
    IF s.fault # "none" THEN s
    ELSE IF full = 0 THEN TmrDisable(s, id, t)
    ELSE IF tm.clk_period = 0 THEN [s EXCEPT !.fault = "div0"]  \* division by zero
    ELSE
    LET wrap == IF count > full THEN 65536 ELSE full + 1
        next_full == (full + (wrap - count - 1)) % wrap
        next_half == (half + (wrap - count - 1)) % wrap
        delta_ticks == Min(next_half, next_full) + 1
        max_ticks == (SecNs * PeriodUnit) \div tm.clk_period
        target_ticks == tm.clk_ticks + Min(delta_ticks, max_ticks)
        target_ns == tm.qts_start_ns + (target_ticks * tm.clk_period) \div PeriodUnit
    IN [s EXCEPT !.timer[id].qts = TimerModAnticipate(tm.qts, target_ns)]

\* tmr_enable(tmr, true)
TmrEnable(s, id, t) ==
    LET s0 == [s EXCEPT !.timer[id].qts_start_ns = t, !.timer[id].clk_ticks = 0]
        s1 == TmrSchedule(s0, id, t)
        s2 == TmrUpdateCnt(s1, id, t)
    IN IF s2.fault # "none" THEN s2 ELSE [s2 EXCEPT !.timer[id].enabled = TRUE]

\* tmr_cb(): the host timer of timer id expired.
TmrCb(s, id, t) ==
    TmrSchedule(TmrUpdateCnt([s EXCEPT !.timer[id].qts = NoTimer], id, t), id, t)

\* The enable loop of ingenic_tcu_write() for TESR/TECR: tmr_enable() for
\* every timer whose bit is in diff, timers 0..5 in order, then the OST.
RECURSIVE TcuEnables(_, _, _, _)
TcuEnables(s, diff, i, t) ==
    LET id == IF i = INGENIC_TCU_MAX_TIMERS THEN OST ELSE i
        s1 == IF id \in diff
              THEN IF id \in s.ter THEN TmrEnable(s, id, t) ELSE TmrDisable(s, id, t)
              ELSE s
    IN IF i = INGENIC_TCU_MAX_TIMERS THEN s1 ELSE TcuEnables(s1, diff, i + 1, t)

\* ingenic_tcu_timer_write(): registers of general-purpose timer id.
TcuTimerWrite(s, id, addr, data, t) ==
    LET reg == addr % 16
        val == NumOf(data \cap (0..15))
        tm  == s.timer[id]
        s1 ==
          CASE reg = REG_TDFR0 % 16 -> [s EXCEPT !.timer[id].top = val]
            [] reg = REG_TDHR0 % 16 -> [s EXCEPT !.timer[id].comp = val]
            [] reg = REG_TCNT0 % 16 -> [s EXCEPT !.timer[id].cnt = val]
            [] reg = REG_TCSR0 % 16 ->
                 LET diff == ((tm.tcsr \ data) \cup (data \ tm.tcsr)) \cap (0..5)
                     tcsr == data \cap BitsOf(\H03bf)
                 IN [s EXCEPT !.timer[id].tcsr = tcsr,
                              !.timer[id].clk_period =
                                  IF diff # {} THEN TmrClkPeriod(tcsr) ELSE @,
                              !.timer[id].cnt = IF 10 \in data THEN 0 ELSE @,
                              !.stop = 10 \in data]
            [] OTHER -> [s EXCEPT !.stop = TRUE]
    IN TmrUpdateCnt(s1, id, t)

\* 0xffffffff, the OST period when OSTCSR bit 15 is set.
UINT32_MAX == 2147483647 + 2147483647 + 1

\* ingenic_tcu_write(): the registers outside the per-timer blocks.
TcuGlobalWrite(s, addr, data, t) ==
    LET ost == s.timer[OST] IN
    CASE addr = REG_TESR ->
           TcuEnables([s EXCEPT !.ter = @ \cup (data \cap BitsOf(\H803f))],
                      (s.ter \ data) \cup (data \ s.ter), 0, t)
      [] addr = REG_TECR ->
           TcuEnables([s EXCEPT !.ter = @ \cap (BitsOf(\H803f) \ data)],
                      (s.ter \ data) \cup (data \ s.ter), 0, t)
      [] addr = REG_TFSR ->
           TcuUpdateIrq([s EXCEPT !.tfr = @ \cup (data \cap BitsOf(\H003f803f))])
      [] addr = REG_TFCR ->
           TcuUpdateIrq([s EXCEPT !.tfr = @ \cap (BitsOf(\H003f803f) \ data)])
      [] addr = REG_TSSR -> [s EXCEPT !.tsr = @ \cup (data \cap BitsOf(\H0001803f))]
      [] addr = REG_TSCR -> [s EXCEPT !.tsr = @ \cap (BitsOf(\H0001803f) \ data)]
      [] addr = REG_TMSR -> [s EXCEPT !.tmr = @ \cup (data \cap BitsOf(\H003f803f))]
      [] addr = REG_TMCR -> [s EXCEPT !.tmr = @ \cap (BitsOf(\H003f803f) \ data)]
      [] addr = REG_OSTDR ->
           [s EXCEPT !.timer[OST].comp = NumOf(data),
                     !.timer[OST].top = IF 15 \in ost.tcsr THEN @ ELSE NumOf(data)]
      [] addr = REG_OSTCNT -> [s EXCEPT !.timer[OST].cnt = NumOf(data)]
      [] addr = REG_OSTCSR ->
           LET diff == ((ost.tcsr \ data) \cup (data \ ost.tcsr)) \cap (0..5)
               tcsr == data \cap BitsOf(\H823f)
           IN [s EXCEPT !.timer[OST].tcsr = tcsr,
                        !.timer[OST].clk_period =
                            IF diff # {} THEN TmrClkPeriod(tcsr) ELSE @,
                        !.timer[OST].top =
                            IF 15 \in tcsr THEN UINT32_MAX ELSE ost.comp]
      [] addr = REG_TSTSR -> [s EXCEPT !.tstr = @ \cup (data \cap BitsOf(\H00060006))]
      [] addr = REG_TSTCR -> [s EXCEPT !.tstr = @ \cap (BitsOf(\H00060006) \ data)]
      [] OTHER -> [s EXCEPT !.stop = TRUE]

\* The timer a register offset in 0x40..0x9f belongs to.
TcuTimerOf(addr) == (addr - 64) \div 16

\* The state an operation starts from: nothing logged yet.
TcuEntry == [tcu EXCEPT !.stop = FALSE, !.upd = <<>>]

\* The timers a register write reconfigures or restarts.
TcuTouched(addr, data) ==
    IF addr \in {REG_TESR, REG_TECR}
    THEN ((tcu.ter \ data) \cup (data \ tcu.ter)) \cap TimerIds
    ELSE IF addr >= 64 /\ addr < 160 THEN {TcuTimerOf(addr)}
    ELSE IF addr \in {REG_OSTDR, REG_OSTCNT, REG_OSTCSR} THEN {OST}
    ELSE {}

\* ingenic_tcu_write()
TcuWrite(addr, data) ==
    \E s \in {IF addr >= 64 /\ addr < 160
              THEN TcuTimerWrite(TcuEntry, TcuTimerOf(addr), addr, data, now)
              ELSE TcuGlobalWrite(TcuEntry, addr, data, now)} :
    /\ tcu.fault = "none"
    /\ tcu' = s
    /\ tcu_op' = [op |-> "write", addr |-> addr, val |-> 0]
    /\ tcu_ref' = [id \in TimerIds |->
                     IF id \notin TcuTouched(addr, data) THEN tcu_ref[id]
                     ELSE IF /\ addr = REG_TESR
                             /\ ~tcu.timer[id].enabled
                             /\ s.fault = "none" /\ s.timer[id].enabled
                             /\ s.timer[id].clk_period > 0
                             /\ s.timer[id].top > 0
                             /\ s.timer[id].cnt <= s.timer[id].top
                          THEN [valid |-> TRUE, t0 |-> now, c0 |-> s.timer[id].cnt]
                          ELSE [valid |-> FALSE, t0 |-> 0, c0 |-> 0]]
    /\ UNCHANGED now

\* ingenic_tcu_read(): the value read is kept in tcu_op.val.
TcuRead(addr) ==
    LET timer == addr >= 64 /\ addr < 160
        id  == IF timer THEN TcuTimerOf(addr) ELSE OST
        upd == (timer /\ addr % 16 = REG_TCNT0 % 16) \/ addr = REG_OSTCNT
        s   == IF upd THEN TmrUpdateCnt(TcuEntry, id, now) ELSE TcuEntry
        known == IF timer THEN addr % 16 \in {0, 4, 8, 12}
                 ELSE addr \in {REG_TER, REG_TESR, REG_TECR, REG_TSR, REG_TFR, REG_TMR,
                                REG_OSTDR, REG_OSTCNT, REG_OSTCSR, REG_TSTR}
        val == IF timer
               THEN CASE addr % 16 = 0 -> s.timer[id].top
                      [] addr % 16 = 4 -> s.timer[id].comp
                      [] addr % 16 = 8 -> s.timer[id].cnt
                      [] addr % 16 = 12 -> NumOf(s.timer[id].tcsr)
                      [] OTHER -> 0
               ELSE CASE addr = REG_TER -> NumOf(s.ter)
                      [] addr = REG_TSR -> NumOf(s.tsr)
                      [] addr = REG_TFR -> NumOf(s.tfr)
                      [] addr = REG_TMR -> NumOf(s.tmr)
                      [] addr = REG_OSTDR -> s.timer[OST].comp
                      [] addr = REG_OSTCNT -> s.timer[OST].cnt
                      [] addr = REG_OSTCSR -> NumOf(s.timer[OST].tcsr)
                      [] addr = REG_TSTR -> NumOf(s.tstr)
                      [] OTHER -> 0
    IN
    /\ tcu.fault = "none"
    /\ tcu' = [s EXCEPT !.stop = ~known]
    /\ tcu_op' = [op |-> "read", addr |-> addr,
                  val |-> IF s.fault # "none" THEN 0 ELSE val]
    /\ UNCHANGED <<now, tcu_ref>>

\* tmr_cb() run by the main loop at or after the deadline of timer id.
TcuTimerCb(id) ==
    /\ tcu.fault = "none"
    /\ tcu.timer[id].qts # NoTimer
    /\ now >= tcu.timer[id].qts
    /\ tcu' = TmrCb(TcuEntry, id, now)
    /\ tcu_op' = [op |-> "cb", addr |-> id, val |-> 0]
    /\ UNCHANGED <<now, tcu_ref>>

\* ingenic_tcu_reset(): timer_del() on every timer, nothing else.
TcuReset ==
    /\ tcu.fault = "none"
    /\ tcu' = [TcuEntry EXCEPT !.timer = [id \in TimerIds |->
                                            [tcu.timer[id] EXCEPT !.qts = NoTimer]]]
    /\ tcu_op' = [op |-> "reset", addr |-> 0, val |-> 0]
    /\ UNCHANGED <<now, tcu_ref>>

\* Virtual time passes (up to the horizon explored).
TcuTick(horizon) ==
    /\ now < horizon
    /\ now' = now + 1
    /\ tcu' = TcuEntry
    /\ tcu_op' = [op |-> "tick", addr |-> 0, val |-> 0]
    /\ UNCHANGED tcu_ref

\* State after object creation (zeroed) with the "model" property set.
TcuInit(models) ==
    /\ now = 0
    /\ \E m \in models :
         tcu = [model |-> m, ter |-> {}, tfr |-> {}, tmr |-> {}, tsr |-> {}, tstr |-> {},
                irq_state |-> {}, irq |-> <<FALSE, FALSE, FALSE>>,
                timer |-> [id \in TimerIds |->
                             [enabled |-> FALSE, qts_start_ns |-> 0, clk_period |-> 0,
                              clk_ticks |-> 0, top |-> 0, comp |-> 0, cnt |-> 0,
                              tcsr |-> {}, qts |-> NoTimer]],
                fault |-> "none", stop |-> FALSE, upd |-> <<>>]
    /\ tcu_op = [op |-> "init", addr |-> 0, val |-> 0]
    /\ tcu_ref = [id \in TimerIds |-> [valid |-> FALSE, t0 |-> 0, c0 |-> 0]]

\* Guest accesses explored for the counting behaviour: timer 0 is configured,
\* started, restarted and read, and its flags are cleared.
TcuTimingWrites ==
    ({REG_TESR} \X {{0}, {}})
    \cup ({REG_TECR} \X {{0}})
    \cup ({REG_TFCR} \X {{0, 16}})
    \cup ({REG_TDFR0} \X {BitsOf(2)})
    \cup ({REG_TDHR0} \X {BitsOf(1)})
    \cup ({REG_TCNT0} \X {BitsOf(1)})
    \cup ({REG_TCSR0} \X {{2}})

TcuTimingReads == {REG_TCNT0}

\* Guest accesses explored for the interrupt outputs: flags and masks of
\* timers 0 and 5 and of the OST are set and cleared, timer 0 runs.
TcuIrqWrites ==
    ({REG_TESR} \X {{0}})
    \cup ({REG_TFSR, REG_TFCR} \X {{0, 16}, {1, 5}, {15}})
    \cup ({REG_TMSR, REG_TMCR} \X {{0, 16}, {1, 5, 15}})
    \cup ({REG_TDFR0} \X {BitsOf(2)})
    \cup ({REG_TCSR0} \X {{0}})

TcuIrqReads == {REG_TCNT0}

TcuGuestWrite(writes) == \E w \in writes : TcuWrite(w[1], w[2])
TcuGuestRead(reads)   == \E addr \in reads : TcuRead(addr)
TcuCallback           == \E id \in TimerIds : TcuTimerCb(id)

TcuNext(writes, reads, horizon) ==
    \/ TcuGuestWrite(writes)
    \/ TcuGuestRead(reads)
    \/ TcuCallback
    \/ TcuReset
    \/ TcuTick(horizon)

\* ========================================================================
\* DMA controller: hw/dma/ingenic_dmac.c
\* ========================================================================

VARIABLES
    dmac,       \* the IngenicDmac object: registers, channel states, bottom
                \* half, interrupt lines
    mem,        \* guest physical memory (the bytes explored)
    dmac_ev     \* the last DMAC operation and what it did

dmac_vars == <<dmac, mem, dmac_ev>>

INGENIC_DMAC_NUM_DMAC == 2
INGENIC_DMAC_NUM_CH == 6
DmacUnits == 0..(INGENIC_DMAC_NUM_DMAC - 1)
DmacChans == 0..(INGENIC_DMAC_NUM_CH - 1)

REG_CH_DSA == 0
REG_CH_DTA == 4
REG_CH_DTC == 8
REG_CH_DRT == 12
REG_CH_DCS == 16
REG_CH_DCM == 20
REG_CH_DDA == 24
REG_CH_DSD == 192
REG_DMAC  == 0
REG_DIRQP == 4
REG_DDR   == 8
REG_DDRS  == 12
REG_DCKE  == 16

REQ_NAND    == 1
REQ_BCH_ENC == 2
REQ_BCH_DEC == 3
REQ_AUTO    == 8
REQ_MSC0_TX == 26
REQ_MSC0_RX == 27

\* Register masks of ingenic_dmac_write() and parse_descriptor().
DCS_MASK  == {31, 30} \cup (16..23) \cup {0, 1, 2, 3, 4, 6, 7}      \* 0xc0ff00df
DCM_MASK  == {31, 30, 29, 28, 25, 23, 22} \cup (16..19) \cup (12..15)
             \cup (8..10) \cup (0..5)                                 \* 0xf2cff73f
DMAC_MASK == (27..31) \cup {9, 8, 3, 2, 0}                            \* 0xf800030d
DCS_KEEP  == {31, 30, 7, 4, 3, 2, 1, 0}                               \* 0xc000009f

\* MMIO addresses the transfer code compares with or accesses.
MSC_RXFIFO == 268570680     \* 0x10021038
MSC_TXFIFO == 268570684     \* 0x1002103c
BCH_BHDR   == 319619088     \* 0x130d0010

\* sizeof(buf) in ingenic_dmac_channel_trigger() is 4096; the model moves
\* data through a buffer of BufLen bytes so that transfers of several
\* buffers fit in the memory explored.
BufLen == 8

\* Guest memory explored: data in bytes 0..MemTop, and room for MaxChain
\* 4-word descriptors from DescBase on.  Reads elsewhere return 0 and writes
\* elsewhere are only recorded as having happened.
MemTop == 95
MaxChain == 3
DescPage == 1
DescBase == 4096 * DescPage
MemAddrs == (0..MemTop) \cup (DescBase..(DescBase + 16 * MaxChain - 1))

\* The value of bits lo..lo+w-1 of a register.
Field(b, lo, w) == NumOf(b \cap (lo..(lo + w - 1))) \div (2^lo)

\* cpu_physical_memory_read() of one byte.
MemByte(m, a) == IF a \in DOMAIN m THEN m[a] ELSE 0

\* A little-endian 32-bit word of guest memory, as a number and as bits.
MemWord(m, a) ==
    MemByte(m, a) + 256 * MemByte(m, a + 1) + 65536 * MemByte(m, a + 2)
    + 16777216 * MemByte(m, a + 3)
MemWordBits(m, a) ==
    UNION {{i + 8 * k : i \in BitsOf(MemByte(m, a + k))} : k \in 0..3}

\* ingenic_dmac_update_irq() leaving the interrupt line alone: a plausible
\* slip.
DmacUpdateIrqMutant(s, u, c) ==
    LET ch == s.reg[u].ch[c]
        pend == (2 \in ch.dcm /\ 6 \in ch.dcs) \/ (1 \in ch.dcm /\ 3 \in ch.dcs)
                \/ 4 \in ch.dcs
    IN [s EXCEPT !.reg[u].dirqp = IF pend THEN @ \cup {c} ELSE @ \ {c}]

\* ingenic_dmac_update_irq(): recompute DIRQP bit ch; drive the unit's
\* interrupt line when DIRQP changes between zero and non-zero.
DmacUpdateIrq(s, u, c) ==
    LET ch == s.reg[u].ch[c]
        pend == (2 \in ch.dcm /\ 6 \in ch.dcs) \/ (1 \in ch.dcm /\ 3 \in ch.dcs)
                \/ 4 \in ch.dcs
        dirqp == IF pend THEN (s.reg[u].dirqp \ {c}) \cup {c} ELSE s.reg[u].dirqp \ {c}
        update == (dirqp = {}) # (s.reg[u].dirqp = {})
    IN [s EXCEPT !.reg[u].dirqp = dirqp,
                 !.irq[u] = IF update THEN dirqp # {} ELSE @]

\* The descriptor address update of parse_descriptor() without the offset
\* of the next descriptor.
DmacNextDdaMutant(dda, doa) == (dda \div 4096) * 4096 + ((dda % 4096) \div 16) * 16

\* (dda & 0xfffff000) | (doa << 4)
DmacNextDda(dda, doa) == (dda \div 4096) * 4096 + doa * 16

\* ingenic_dmac_parse_descriptor(): load the channel registers from the
\* descriptor of nwords words at addr.
DmacParseDescriptor(s, u, c, addr, nwords) ==
    LET ch   == s.reg[u].ch[c]
        d0   == MemWordBits(s.mem, addr)
        doa  == MemByte(s.mem, addr + 15)
        dtc  == MemByte(s.mem, addr + 12) + 256 * MemByte(s.mem, addr + 13)
                + 65536 * MemByte(s.mem, addr + 14)
        v    == IF 3 \in d0 THEN 4 \in d0 ELSE TRUE
        dcs  == (ch.dcs \cap DCS_KEEP)
                \cup {i + 16 : i \in BitsOf((ch.dda \div 16) % 256)}
                \cup (IF v THEN {} ELSE {6})
        s1 == [s EXCEPT !.reg[u].ddr = @ \ {c},
                        !.stop = @ \/ 27 \in d0 \/ 7 \in d0,
                        !.reg[u].ch[c].dcs = dcs,
                        !.reg[u].ch[c].dcm = d0 \cap DCM_MASK,
                        !.reg[u].ch[c].dsa = MemWord(s.mem, addr + 4),
                        !.reg[u].ch[c].dta = MemWord(s.mem, addr + 8),
                        !.reg[u].ch[c].dtc = dtc,
                        !.reg[u].ch[c].dda = DmacNextDda(ch.dda, doa),
                        !.reg[u].ch[c].dsd = IF nwords >= 8
                                             THEN MemWord(s.mem, addr + 16) ELSE @,
                        !.reg[u].ch[c].drt = IF nwords >= 8
                                             THEN MemByte(s.mem, addr + 20) % 64 ELSE @,
                        !.need[u][c] = FALSE,
                        !.fetched = Append(@, [u |-> u, c |-> c, addr |-> addr])]
    IN DmacUpdateIrq(s1, u, c)

\* ingenic_dmac_wait_req(): start at once or wait for the request line.
\* msc is what ingenic_msc_available() returns.
DmacWaitReq(s, u, c, msc) ==
    LET v   == 6 \notin s.reg[u].ch[c].dcs
        req == s.reg[u].ch[c].drt
    IN CASE req = REQ_NAND -> [s EXCEPT !.state[u][c] = "Idle"]
         [] req \in {REQ_MSC0_TX, REQ_MSC0_RX} ->
              [s EXCEPT !.state[u][c] = IF msc # 0 THEN "Txfr" ELSE "Idle"]
         [] req \in {REQ_BCH_ENC, REQ_BCH_DEC, REQ_AUTO} ->
              [s EXCEPT !.state[u][c] = IF v THEN "Txfr" ELSE "Idle"]
         [] OTHER -> [s EXCEPT !.state[u][c] = "Idle", !.stop = TRUE]

\* sdp_map[] and tsz_map[] of ingenic_dmac_channel_trigger().
SdpMap == <<4, 1, 2, 0>>

\* tsz_map[] with the 32-byte unit taken for 16 bytes.
TszMapMutant == <<4, 1, 2, 16, 16, 0, 0, 0>>

TszMap == <<4, 1, 2, 16, 32, 0, 0, 0>>

\* The number of accesses of b bytes the non-incrementing loops make for len
\* bytes: for (i = len; i > 0; i -= b).
PortAccesses(len, b) == (len + b - 1) \div b

\* The while (avail) loop of ingenic_dmac_channel_trigger(): move avail bytes
\* through buf, at most BufLen at a time.  x holds the memory, the set wr of
\* addresses written so far, and the moving src and dst.  Bytes of buf that
\* were never filled hold whatever the stack held (junk).
RECURSIVE DmacMove(_, _, _, _)
DmacMove(x, avail, t, junk) ==
    IF avail = 0 THEN x
    ELSE
    LET len == Min(BufLen, avail)
        filled == IF t.src_inc \/ (t.req = REQ_MSC0_RX /\ x.src = MSC_RXFIFO)
                  THEN len
                  ELSE PortAccesses(len, t.src_b) * t.src_b
        buf == [k \in 0..(BufLen + 3) |->
                  IF k >= filled THEN junk
                  ELSE IF t.src_inc THEN MemByte(x.mem, x.src + k)
                  ELSE IF t.req = REQ_MSC0_RX /\ x.src = MSC_RXFIFO THEN junk
                  ELSE MemByte(x.mem, x.src + (k % t.src_b))]
        last == (PortAccesses(len, t.dst_b) - 1) * t.dst_b
        target == IF t.dst_inc THEN x.dst..(x.dst + len - 1)
                  ELSE IF t.req = REQ_MSC0_TX /\ x.dst = MSC_TXFIFO THEN {}
                  ELSE x.dst..(x.dst + t.dst_b - 1)
        m == [a \in DOMAIN x.mem |->
                IF a \notin target THEN x.mem[a]
                ELSE IF t.dst_inc THEN buf[a - x.dst]
                ELSE buf[last + (a - x.dst)]]
    IN DmacMove([mem |-> m, wr |-> x.wr \cup target,
                 src |-> IF t.src_inc THEN x.src + len ELSE x.src,
                 dst |-> IF t.dst_inc THEN x.dst + len ELSE x.dst],
                avail - len, t, junk)


\* The end of ingenic_dmac_channel_trigger() ("Transfer complete"): clear V
\* if VM, set CT (LINK) or TT, update the interrupt, go on to the next
\* descriptor or stop.
DmacComplete(s, u, c) ==
    LET ch == s.reg[u].ch[c]
        s1 == [s EXCEPT !.reg[u].ch[c].dcm = IF 3 \in ch.dcm THEN @ \ {4} ELSE @,
                        !.reg[u].ch[c].dcs = IF 0 \in ch.dcm THEN @ \cup {1}
                                             ELSE @ \cup {3}]
        s2 == DmacUpdateIrq(s1, u, c)
    IN IF 31 \in ch.dcs \/ 0 \notin ch.dcm
       THEN [s2 EXCEPT !.state[u][c] = "Idle"]
       ELSE [s2 EXCEPT !.state[u][c] = "Desc", !.bh = TRUE, !.need[u][c] = TRUE]

\* The checks at the head of ingenic_dmac_channel_trigger(), without the
\* one for stride mode.
DmacRejectMutant(dcm, drt) ==
    IF 6 \in dcm THEN "inv"
    ELSE IF SdpMap[Field(dcm, 14, 2) + 1] = 0 \/ SdpMap[Field(dcm, 12, 2) + 1] = 0
            \/ TszMap[Field(dcm, 8, 3) + 1] = 0 THEN "size"
    ELSE IF drt \notin {REQ_AUTO, REQ_NAND, REQ_MSC0_TX, REQ_MSC0_RX, REQ_BCH_DEC}
    THEN "req"
    ELSE "ok"

\* The checks at the head of ingenic_dmac_channel_trigger(): why the
\* transfer is refused, or "ok".
DmacReject(dcm, drt) ==
    IF 6 \in dcm THEN "inv"
    ELSE IF 5 \in dcm THEN "stride"
    ELSE IF SdpMap[Field(dcm, 14, 2) + 1] = 0 \/ SdpMap[Field(dcm, 12, 2) + 1] = 0
            \/ TszMap[Field(dcm, 8, 3) + 1] = 0 THEN "size"
    ELSE IF drt \notin {REQ_AUTO, REQ_NAND, REQ_MSC0_TX, REQ_MSC0_RX, REQ_BCH_DEC}
    THEN "req"
    ELSE "ok"

\* ingenic_dmac_channel_trigger(): run the transfer of channel c of unit u.
\* env holds what the environment supplies: msc, the bytes the MSC has
\* available; bch8 and bch_err, bit 2 of BHCR and bit 0 of BHINT; junk, the
\* value of every byte read from uninitialised memory or from the SD card.
DmacChannelTrigger(s, u, c, env) ==
    LET ch    == s.reg[u].ch[c]
        why   == DmacReject(ch.dcm, ch.drt)
        tsz_b == TszMap[Field(ch.dcm, 8, 3) + 1]
        size  == ch.dtc * tsz_b
        avail == IF ch.drt \in {REQ_MSC0_TX, REQ_MSC0_RX} THEN Min(size, env.msc)
                 ELSE size
        bch   == ch.drt = REQ_BCH_DEC
        t == [req |-> ch.drt,
              src_b |-> SdpMap[Field(ch.dcm, 14, 2) + 1],
              src_inc |-> 23 \in ch.dcm,
              dst_b |-> IF bch THEN 1 ELSE SdpMap[Field(ch.dcm, 12, 2) + 1],
              dst_inc |-> IF bch THEN FALSE ELSE 22 \in ch.dcm]
        x == DmacMove([mem |-> s.mem, wr |-> {}, src |-> ch.dsa,
                       dst |-> IF bch THEN BCH_BHDR ELSE ch.dta],
                      avail, t, env.junk)
        left == size - avail
        \* REQ_BCH_DEC with BLAST: the BCH result is written to memory at dta
        n_err == IF env.bch_err THEN 1 + (IF env.bch8 THEN 4 ELSE 2) ELSE 1
        blast == bch /\ 25 \in ch.dcm
        res   == ch.dta..(ch.dta + 4 * n_err - 1)
        m2 == IF blast
              THEN [a \in DOMAIN x.mem |->
                      IF a \notin res THEN x.mem[a]
                      ELSE IF a = ch.dta THEN (IF env.bch_err THEN 1 ELSE 0)
                      ELSE 0]
              ELSE x.mem
        wr2 == IF blast THEN x.wr \cup res \cup (319619076..319619079) ELSE x.wr
        s1 == [s EXCEPT !.mem = m2,
                        !.reg[u].ch[c].dtc = left \div tsz_b,
                        !.reg[u].ch[c].dcs = IF blast
                                             THEN (IF env.bch_err THEN @ \cup {7}
                                                   ELSE @ \ {7})
                                             ELSE @]
        ev(out, wr) == [u |-> u, c |-> c, out |-> out, wr |-> wr, pre |-> ch,
                        stale |-> s.need[u][c],
                        pre_mem |-> s.mem, pre_dirqp |-> s.reg[u].dirqp,
                        pre_irq |-> s.irq[u]]
    IN IF why = "inv"
       THEN [s EXCEPT !.state[u][c] = "Idle", !.trig = Append(@, ev(why, {}))]
       ELSE IF why # "ok"
       THEN [s EXCEPT !.state[u][c] = "Idle", !.stop = TRUE,
                      !.trig = Append(@, ev(why, {}))]
       ELSE IF left # 0
       THEN [s1 EXCEPT !.state[u][c] = "Idle", !.trig = Append(@, ev("partial", wr2))]
       ELSE DmacComplete([s1 EXCEPT !.trig = Append(@, ev("done", wr2))], u, c)

\* ingenic_dmac_channel_is_enabled() testing DCS with 0x1d, without the INV
\* bit: a plausible slip.
DmacChannelIsEnabledMutant(s, u, c) ==
    /\ s.reg[u].dmac \cap {3, 2, 0} = {0}
    /\ s.reg[u].ch[c].dcs \cap {0, 2, 3, 4} = {0}

\* ingenic_dmac_channel_is_enabled()
DmacChannelIsEnabled(s, u, c) ==
    /\ s.reg[u].dmac \cap {3, 2, 0} = {0}
    /\ s.reg[u].ch[c].dcs \cap {0, 2, 3, 4, 6} = {0}

\* The body of the loops of ingenic_dmac_trigger_bh() for one channel.
DmacBhChannel(s, u, c, env) ==
    LET ch == s.reg[u].ch[c]
        s1 == IF s.state[u][c] = "Desc"
              THEN DmacWaitReq(IF 31 \notin ch.dcs
                               THEN DmacParseDescriptor(s, u, c, ch.dda,
                                                        IF 30 \in ch.dcs THEN 8 ELSE 4)
                               ELSE s,
                               u, c, env.msc)
              ELSE s
    IN IF s1.state[u][c] = "Txfr" THEN DmacChannelTrigger(s1, u, c, env) ELSE s1

\* ingenic_dmac_trigger_bh(): all channels of all units, in order.
RECURSIVE DmacTriggerBh(_, _, _)
DmacTriggerBh(s, i, env) ==
    IF i = INGENIC_DMAC_NUM_DMAC * INGENIC_DMAC_NUM_CH THEN s
    ELSE DmacTriggerBh(DmacBhChannel(s, i \div INGENIC_DMAC_NUM_CH,
                                     i % INGENIC_DMAC_NUM_CH, env),
                       i + 1, env)

\* "Start DMA transfer" running the channel from the register write itself
\* instead of scheduling the bottom half.
DmacStartMutant(s, u, c) ==
    IF DmacChannelIsEnabled(s, u, c)
    THEN DmacBhChannel([s EXCEPT !.state[u][c] = "Desc",
                                 !.need[u][c] = 31 \notin s.reg[u].ch[c].dcs], u, c,
                       [msc |-> 0, bch8 |-> FALSE, bch_err |-> FALSE, junk |-> 0])
    ELSE [s EXCEPT !.state[u][c] = "Idle"]

\* "Start DMA transfer" in ingenic_dmac_write(): Desc and the bottom half
\* for an enabled channel, Idle otherwise.  s.need remembers (history,
\* not device state) that the channel was told to fetch a descriptor and
\* has not fetched it yet.
DmacStart(s, u, c) ==
    IF DmacChannelIsEnabled(s, u, c)
    THEN [s EXCEPT !.state[u][c] = "Desc", !.bh = TRUE,
                   !.need[u][c] = 31 \notin s.reg[u].ch[c].dcs]
    ELSE [s EXCEPT !.state[u][c] = "Idle", !.need[u][c] = FALSE]

RECURSIVE DmacStartAll(_, _, _)
DmacStartAll(s, u, c) ==
    IF c = INGENIC_DMAC_NUM_CH THEN s ELSE DmacStartAll(DmacStart(s, u, c), u, c + 1)

\* ingenic_dmac_write(): the state after the write of data at addr.
DmacRegWrite(s, addr, data) ==
    LET u == (addr \div 256) % INGENIC_DMAC_NUM_DMAC
        c == (addr % 256) \div 32
        g == ((addr - 768) \div 256) % INGENIC_DMAC_NUM_DMAC
        \* the channel index of the DSD case: (ch - 0xc0) / 6 in uint32_t
        dsd_ch == (((c - REG_CH_DSD) + UINT32_MAX + 1) % (UINT32_MAX + 1))
                  \div INGENIC_DMAC_NUM_CH
    IN
    IF addr < 768 THEN
        IF c >= INGENIC_DMAC_NUM_CH THEN [s EXCEPT !.stop = TRUE]
        ELSE IF addr % 256 >= REG_CH_DSD
        THEN \* the DSD case: offsets from 0xc0 have c >= 6 and end in the
             \* branch above, so this one is never taken
             IF dsd_ch \in DmacChans /\ ((addr % 256) \div 32) * 32 = REG_CH_DSD
             THEN [s EXCEPT !.reg[u].ch[dsd_ch].dsd = NumOf(data)]
             ELSE [s EXCEPT !.stop = TRUE]
        ELSE CASE addr % 32 = REG_CH_DSA -> [s EXCEPT !.reg[u].ch[c].dsa = NumOf(data)]
               [] addr % 32 = REG_CH_DTA -> [s EXCEPT !.reg[u].ch[c].dta = NumOf(data)]
               [] addr % 32 = REG_CH_DTC ->
                    [s EXCEPT !.reg[u].ch[c].dtc = NumOf(data \cap (0..23))]
               [] addr % 32 = REG_CH_DRT ->
                    [s EXCEPT !.reg[u].ch[c].drt = NumOf(data \cap (0..5))]
               [] addr % 32 = REG_CH_DCS ->
                    DmacStart(DmacUpdateIrq([s EXCEPT !.reg[u].ch[c].dcs =
                                                         data \cap DCS_MASK], u, c),
                              u, c)
               [] addr % 32 = REG_CH_DCM ->
                    DmacUpdateIrq([s EXCEPT !.reg[u].ch[c].dcm = data \cap DCM_MASK], u, c)
               [] addr % 32 = REG_CH_DDA ->
                    [s EXCEPT !.reg[u].ch[c].dda = NumOf(data \ (0..3))]
               [] OTHER -> [s EXCEPT !.stop = TRUE]
    ELSE IF addr < 1280 THEN
        CASE addr % 256 = REG_DMAC ->
               DmacStartAll([s EXCEPT !.reg[g].dmac = data \cap DMAC_MASK,
                                      !.stop = data \cap {2, 3} # {}],
                            g, 0)
          [] addr % 256 = REG_DIRQP -> s
          [] addr % 256 = REG_DDRS -> [s EXCEPT !.reg[g].ddr = @ \cup (data \cap (0..3))]
          [] addr % 256 = REG_DCKE -> [s EXCEPT !.reg[g].dcke = data \cap (0..3)]
          [] OTHER -> [s EXCEPT !.stop = TRUE]
    ELSE [s EXCEPT !.stop = TRUE]

\* ingenic_dmac_read(): whether the offset decodes to a register.
DmacReadKnown(addr) ==
    IF addr < 768
    THEN (addr % 256) \div 32 < INGENIC_DMAC_NUM_CH
         /\ IF addr % 256 >= REG_CH_DSD
            THEN ((addr % 256) \div 32) * 32 = REG_CH_DSD
            ELSE addr % 32 \in {REG_CH_DSA, REG_CH_DTA, REG_CH_DTC, REG_CH_DRT,
                                REG_CH_DCS, REG_CH_DCM, REG_CH_DDA}
    ELSE addr < 1280 /\ addr % 256 \in {REG_DMAC, REG_DIRQP, REG_DDR, REG_DCKE}

\* ingenic_dmac_req() and ingenic_dmac_channel_req_detect(): request line
\* req changes to level.
RECURSIVE DmacReqAll(_, _, _, _)
DmacReqAll(s, i, req, level) ==
    LET u == i \div INGENIC_DMAC_NUM_CH
        c == i % INGENIC_DMAC_NUM_CH
    IN IF i = INGENIC_DMAC_NUM_DMAC * INGENIC_DMAC_NUM_CH THEN s
       ELSE DmacReqAll(
              IF DmacChannelIsEnabled(s, u, c) /\ s.reg[u].ch[c].drt = req
              THEN IF req \in {REQ_NAND, REQ_MSC0_RX}
                   THEN IF level = 1
                        THEN [s EXCEPT !.state[u][c] = "Txfr", !.bh = TRUE]
                        ELSE s
                   ELSE [s EXCEPT !.stop = TRUE]
              ELSE s,
              i + 1, req, level)

\* The device and memory at the start of an operation.
DmacEntry ==
    [reg |-> dmac.reg, state |-> dmac.state, bh |-> dmac.bh, irq |-> dmac.irq,
     need |-> dmac.need, mem |-> mem, stop |-> FALSE, fetched |-> <<>>, trig |-> <<>>]

\* The variables after an operation that led to s.
DmacCommit(s, op, log) ==
    /\ dmac' = [reg |-> s.reg, state |-> s.state, bh |-> s.bh, irq |-> s.irq,
                need |-> s.need,
                log |-> IF log THEN dmac.log \o s.fetched ELSE dmac.log]
    /\ mem' = s.mem
    /\ dmac_ev' = [op |-> op, stop |-> s.stop,
                   fetched |-> s.fetched, trig |-> s.trig]

\* A guest write to a DMAC register.
DmacWrite(addr, data) == DmacCommit(DmacRegWrite(DmacEntry, addr, data), "write", FALSE)

\* A guest read of a DMAC register.
DmacRead(addr) ==
    DmacCommit([DmacEntry EXCEPT !.stop = ~DmacReadKnown(addr)], "read", FALSE)

\* A DMA request line changes.
DmacReq(req, level) == DmacCommit(DmacReqAll(DmacEntry, 0, req, level), "req", FALSE)

\* The main loop runs the scheduled bottom half.  With log, the descriptor
\* fetches are appended to the history dmac.log.
DmacBh(env, log) ==
    /\ dmac.bh
    /\ DmacCommit(DmacTriggerBh([DmacEntry EXCEPT !.bh = FALSE], 0, env), "bh", log)

\* State after construction and the reset at start-up, over a memory image.
DmacInit(images) ==
    /\ dmac = [reg |-> [u \in DmacUnits |->
                          [dmac |-> {}, dirqp |-> {}, ddr |-> {}, dcke |-> {},
                           ch |-> [c \in DmacChans |->
                                     [dsa |-> 0, dta |-> 0, dtc |-> 0, drt |-> 0,
                                      dcs |-> {}, dcm |-> {}, dda |-> 0, dsd |-> 0]]]],
               state |-> [u \in DmacUnits |-> [c \in DmacChans |-> "Idle"]],
               need |-> [u \in DmacUnits |-> [c \in DmacChans |-> FALSE]],
               bh |-> FALSE,
               irq |-> [u \in DmacUnits |-> FALSE],
               log |-> <<>>]
    /\ mem \in images
    /\ dmac_ev = [op |-> "init", stop |-> FALSE,
                  fetched |-> <<>>, trig |-> <<>>]

\* ------------------------------------------------------------------------
\* Guest memory images and guest programs driving the DMA controller
\* ------------------------------------------------------------------------

VARIABLE guest  \* the driver program the guest runs and how far it got

\* Byte k of a 32-bit word given as bits, and of one given as a number.
ByteOfBits(b, k) == NumOf({i - 8 * k : i \in b \cap ((8 * k)..(8 * k + 7))})
ByteOfNum(n, k)  == (n \div (256^k)) % 256

\* Byte i (0..15) of the 4-word descriptor d: DCM, DSA, DTA, DOA:DTC.
DescByte(d, i) ==
    CASE i < 4  -> ByteOfBits(d.dcm, i)
      [] i < 8  -> ByteOfNum(d.dsa, i - 4)
      [] i < 12 -> ByteOfNum(d.dta, i - 8)
      [] i < 15 -> ByteOfNum(d.dtc, i - 12)
      [] OTHER  -> d.doa

\* Data bytes: zero below 16 (so that address 0 holds an empty descriptor),
\* then distinct values.
DataByte(a) == IF a < 16 THEN 0 ELSE a

\* The memory holding descriptor slots[k] in slot k (k = 0..MaxChain-1)
\* from DescBase on; slots is a function from a set of slot numbers.
Image(slots) ==
    [a \in MemAddrs |->
        IF a >= DescBase
        THEN IF (a - DescBase) \div 16 \in DOMAIN slots
             THEN DescByte(slots[(a - DescBase) \div 16], (a - DescBase) % 16)
             ELSE 0
        ELSE DataByte(a)]

\* DCM bits: SAI, DAI, TSZ = 1 (bytes), 32-bit ports.
DCM_COPY == {23, 22, 8}

\* Descriptor number j (1..n) of a chain of n visiting the slots in the
\* given order: link to the next one; the last one ends the chain and asks
\* for the transfer interrupt.  vm selects the valid-bit mode with V=1.
ChainDesc(order, j, vm) ==
    [dcm |-> DCM_COPY \cup (IF j < Len(order) THEN {0} ELSE {1})
             \cup (IF vm THEN {3, 4} ELSE {}),
     dsa |-> 16 + 4 * j,
     dta |-> 40 + 8 * j,
     dtc |-> 1 + (j % 2),
     doa |-> IF j < Len(order) THEN order[j + 1] ELSE 0]

\* The orders in which a chain can visit distinct descriptor slots.
ChainOrders ==
    {o \in UNION {[1..n -> 0..(MaxChain - 1)] : n \in 1..MaxChain} :
        \A i, j \in DOMAIN o : i # j => o[i] # o[j]}

ChainImage(order, vm) ==
    Image([k \in {order[j] : j \in DOMAIN order} |->
             ChainDesc(order, CHOOSE j \in DOMAIN order : order[j] = k, vm)])

\* Register offsets of channel c of unit u.
ChAddr(u, c, reg) == 256 * u + 32 * c + reg

\* The driver: program a direct (no-descriptor) transfer and start it.
DirectProg(u, c, dsa, dta, dtc, drt, dcm) ==
    << <<ChAddr(u, c, REG_CH_DSA), BitsOf(dsa)>>,
       <<ChAddr(u, c, REG_CH_DTA), BitsOf(dta)>>,
       <<ChAddr(u, c, REG_CH_DTC), BitsOf(dtc)>>,
       <<ChAddr(u, c, REG_CH_DRT), BitsOf(drt)>>,
       <<ChAddr(u, c, REG_CH_DCM), dcm>>,
       <<768 + 256 * u + REG_DMAC, {0}>>,
       <<ChAddr(u, c, REG_CH_DCS), {31, 0}>> >>

\* The driver: point the channel at a descriptor chain and start it.
ChainProg(u, c, head) ==
    << <<ChAddr(u, c, REG_CH_DRT), BitsOf(REQ_AUTO)>>,
       <<ChAddr(u, c, REG_CH_DDA), BitsOf(DescBase + 16 * head)>>,
       <<768 + 256 * u + REG_DMAC, {0}>>,
       <<ChAddr(u, c, REG_CH_DCS), {0}>> >>

\* Largest transfer count programmed.
MaxDtc == 3

\* DCM values of the direct transfers: every transfer size with both
\* addresses incrementing, with and without the transfer interrupt and with
\* two port-width pairs; fixed source or target; reserved port widths;
\* stride mode.
DirectDcms ==
    {{23, 22} \cup {i + 8 : i \in BitsOf(tsz)} \cup p \cup tie :
        tsz \in 0..7, p \in {{}, {14, 13}}, tie \in {{}, {1}}}
    \cup {{23, 8}, {22, 8}, {22, 8, 14}}
    \cup {{23, 22, 8, 15, 14}, {23, 22, 8, 13, 12}, {23, 22, 8, 5}, {23, 22, 5, 10, 9}}

NoCfg == [dsa |-> 0, dta |-> 0, dtc |-> 0, drt |-> 0, dcm |-> {}]

DirectScenarios ==
    {[kind |-> "direct", u |-> uc[1], c |-> uc[2], order |-> <<>>,
      cfg |-> [dsa |-> dsa, dta |-> dta, dtc |-> dtc, drt |-> drt, dcm |-> dcm],
      prog |-> DirectProg(uc[1], uc[2], dsa, dta, dtc, drt, dcm),
      image |-> Image(<<>>)] :
        uc \in {<<0, 0>>, <<1, 5>>}, dsa \in {16, 21}, dta \in {48, 60}, dtc \in 0..MaxDtc,
        drt \in {REQ_AUTO, REQ_BCH_ENC, 20}, dcm \in DirectDcms}

ChainScenarios ==
    {[kind |-> "chain", u |-> uc[1], c |-> uc[2], order |-> o,
      cfg |-> NoCfg,
      prog |-> ChainProg(uc[1], uc[2], o[1]),
      image |-> ChainImage(o, vm)] :
        uc \in {<<0, 0>>, <<1, 5>>}, o \in ChainOrders, vm \in BOOLEAN}

\* Card-to-memory reads paced by the MSC: DSA at the receive FIFO, target
\* address incrementing, units of 4 bytes (TSZ = 0) or 1 byte (TSZ = 1).
MscScenarios ==
    {[kind |-> "msc", u |-> uc[1], c |-> uc[2], order |-> <<>>,
      cfg |-> [dsa |-> MSC_RXFIFO, dta |-> dta, dtc |-> dtc, drt |-> REQ_MSC0_RX,
               dcm |-> dcm],
      prog |-> DirectProg(uc[1], uc[2], MSC_RXFIFO, dta, dtc, REQ_MSC0_RX, dcm),
      image |-> Image(<<>>)] :
        uc \in {<<0, 0>>, <<1, 5>>}, dta \in {48, 60}, dtc \in 1..MaxDtc,
        dcm \in {{22}, {22, 8}}}

\* What the environment supplies to a run of the bottom half.
DmacEnvs ==
    {[msc |-> 0, bch8 |-> FALSE, bch_err |-> FALSE, junk |-> 0],
     [msc |-> 4, bch8 |-> TRUE, bch_err |-> TRUE, junk |-> 255]}

\* The guest runs the next write of its driver program.
GuestStep ==
    /\ guest.pc <= Len(guest.prog)
    /\ DmacWrite(guest.prog[guest.pc][1], guest.prog[guest.pc][2])
    /\ guest' = [guest EXCEPT !.pc = @ + 1]

\* The bottom half runs while the guest program is under way or done.
GuestBh ==
    /\ \E env \in DmacEnvs : DmacBh(env, TRUE)
    /\ UNCHANGED guest

GuestInit(scenarios) ==
    \E sc \in scenarios :
        /\ DmacInit({sc.image})
        /\ guest = [kind |-> sc.kind, u |-> sc.u, c |-> sc.c, order |-> sc.order,
                    cfg |-> sc.cfg, prog |-> sc.prog, pc |-> 1, line |-> 0]

GuestNext == GuestStep \/ GuestBh

\* The MSC notifies the level of its receive request line; guest.line is
\* the level of the notification before.
GuestMscReq ==
    \E level \in {0, 1} :
        /\ DmacReq(REQ_MSC0_RX, level)
        /\ guest' = [guest EXCEPT !.line = level]

GuestMscNext == GuestStep \/ GuestBh \/ GuestMscReq

\* Free-running guest: register writes, reads and request lines in any
\* order, over a memory holding a two-descriptor chain whose second
\* descriptor is invalid (VM=1, V=0) and asks for the invalid interrupt.
FreeImage ==
    Image(0 :> [dcm |-> DCM_COPY \cup {0}, dsa |-> 16, dta |-> 48, dtc |-> 2, doa |-> 1]
          @@ 1 :> [dcm |-> DCM_COPY \cup {3, 2}, dsa |-> 20, dta |-> 56, dtc |-> 1,
                   doa |-> 0])

\* DSD offsets: the first of unit 0 and the second of unit 1.
DmacDsdAddrs == {ChAddr(0, 0, REG_CH_DSD), ChAddr(1, 0, REG_CH_DSD) + 4}

DmacFreeWrites ==
    ({ChAddr(0, 0, REG_CH_DCS)} \X {{31, 0}, {0}, {}})
    \cup ({ChAddr(1, 5, REG_CH_DCS)} \X {{4}, {}})
    \cup ({ChAddr(0, 0, REG_CH_DCM)} \X {DCM_COPY \cup {1}})
    \cup ({ChAddr(0, 0, REG_CH_DTC)} \X {BitsOf(2)})
    \cup ({ChAddr(0, 0, REG_CH_DRT)} \X {BitsOf(REQ_AUTO), BitsOf(REQ_NAND)})
    \cup ({ChAddr(0, 0, REG_CH_DDA)} \X {BitsOf(DescBase)})
    \cup ({768 + REG_DMAC} \X {{0}})
    \cup ({768 + REG_DIRQP, 1024 + REG_DIRQP} \X {{0, 5}})
    \cup ({768 + REG_DDRS} \cup DmacDsdAddrs) \X {{0}}

DmacFreeReads == {768 + REG_DIRQP, 768 + REG_DDRS, ChAddr(0, 0, REG_CH_DCS),
                  ChAddr(0, 0, REG_CH_DSD)}

DmacGuestWrite == \E w \in DmacFreeWrites : DmacWrite(w[1], w[2])
DmacGuestRead  == \E addr \in DmacFreeReads : DmacRead(addr)
DmacRequest    == \E level \in {0, 1} : DmacReq(REQ_NAND, level)
DmacBottomHalf == \E env \in DmacEnvs : DmacBh(env, FALSE)

DmacNext ==
    /\ \/ DmacGuestWrite
       \/ DmacGuestRead
       \/ DmacRequest
       \/ DmacBottomHalf
    /\ UNCHANGED guest

\* Guest writes explored for the start conditions of channel 0.0: DCS and
\* DMAC values with each control bit on its own and combined, over a
\* channel set up for the descriptor chain of FreeImage.
DmacDcsValues ==
    {{0}, {31, 0}, {}, {0, 2}, {0, 3}, {0, 4}, {0, 6}, {6}, {31, 0, 3, 6}}

DmacDcsWrites ==
    ({ChAddr(0, 0, REG_CH_DCS)} \X DmacDcsValues)
    \cup ({768 + REG_DMAC} \X {{0}, {}, {0, 2}, {0, 3}})
    \cup ({ChAddr(0, 0, REG_CH_DRT)} \X {BitsOf(REQ_AUTO), BitsOf(REQ_MSC0_RX)})
    \cup ({ChAddr(0, 0, REG_CH_DDA)} \X {BitsOf(DescBase)})

DmacDcsNext ==
    /\ \/ \E w \in DmacDcsWrites : DmacWrite(w[1], w[2])
       \/ DmacBottomHalf
    /\ UNCHANGED guest

DmacFreeInit ==
    /\ DmacInit({FreeImage})
    /\ guest = [kind |-> "free", u |-> 0, c |-> 0, order |-> <<>>, cfg |-> NoCfg,
                prog |-> <<>>, pc |-> 1, line |-> 0]

\* ========================================================================
\* MMC/SD controller: hw/sd/ingenic_msc.c
\* ========================================================================

VARIABLES
    msc,        \* the IngenicMsc object: registers, data position, interrupt
                \* and DMA request lines
    msc_op      \* the last MSC operation

msc_vars == <<msc, msc_op>>

DATA_FIFO_SIZE == 64

REG_CTRL   == 0
REG_STAT   == 4
REG_CLKRT  == 8
REG_CMDAT  == 12
REG_BLKLEN == 24
REG_NOB    == 28
REG_IMASK  == 36
REG_IREG   == 40
REG_CMD    == 44
REG_ARG    == 48
REG_RES    == 52
REG_RXFIFO == 56
REG_LPM    == 64

\* The "model" property value whose IREG resets to 0x2000.
MSC_MODEL_47FF == 18431

Word16 == 0..15

\* ingenic_msc_reset(); the card detect line follows the card.
MscReset(s) ==
    [s EXCEPT !.stat = {6}, !.clkrt = 0, !.cmdat = {}, !.imask = Word16,
              !.ireg = IF s.model = MSC_MODEL_47FF THEN {13} ELSE {},
              !.cmd = 0, !.arg = 0, !.lpm = {},
              !.gpio_cd = s.inserted]

\* ingenic_msc_update_irq(): drive the interrupt line when ~IMASK & IREG
\* changes between zero and non-zero.
MscUpdateIrq(s) ==
    LET irq == s.ireg \ s.imask
    IN IF (irq # {}) # (s.prev_irq # {})
       THEN [s EXCEPT !.prev_irq = irq, !.irq = irq # {}]
       ELSE s

\* ingenic_msc_update_rx_flags(): data-read status after the data position
\* moved.  The division by BLKLEN faults when BLKLEN is 0.
MscUpdateRxFlags(s) ==
    LET txfr_cnt == Min(s.data_size, s.data_offset + DATA_FIFO_SIZE)
        done  == s.data_size = txfr_cnt
        empty == s.data_offset = s.data_size
        s1 == [s EXCEPT !.stat = (IF empty THEN @ \cup {6} ELSE @ \ {6})
                                 \cup (IF done THEN {12} ELSE {}),
                        !.ireg = IF done THEN @ \cup {0} ELSE @]
    IN IF s.blklen = 0
       THEN [s1 EXCEPT !.fault = "div0"]
       ELSE MscUpdateIrq([s1 EXCEPT !.snob = (s.data_offset \div s.blklen) % 65536])

\* ingenic_msc_start(): send the command; rlen is the length of the
\* response sdbus_do_command() returns.
MscStart(s, rlen) ==
    LET rtype == NumOf(s.cmdat \cap (0..2))
        ok == CASE rtype = 0 -> rlen = 0
                [] rtype \in {1, 3, 6} -> rlen = 4
                [] rtype = 2 -> rlen = 16
                [] OTHER -> FALSE
        s0 == [s EXCEPT !.resp_offset = 0, !.stop = @ \/ rtype \in {4, 5, 7}]
        s1 == [s0 EXCEPT !.stat = (@ \cap {8, 6}) \cup {11},
                         !.ireg = @ \cup {2},
                         !.stop = @ \/ 11 \in s.cmdat]
        d  == [s1 EXCEPT !.data_offset = 0, !.data_size = s.blklen * s.nob]
        r  == MscUpdateRxFlags(d)
        s2 == IF 3 \notin s.cmdat THEN s1
              ELSE IF 4 \in s.cmdat THEN [d EXCEPT !.stop = TRUE]
              ELSE IF r.fault # "none" THEN r
              ELSE [r EXCEPT !.dma_rx = IF d.data_size # 0 /\ 8 \in s.cmdat
                                        THEN TRUE ELSE @]
    IN IF ~ok
       THEN MscUpdateIrq([s0 EXCEPT !.stat = (@ \cap {8, 6}) \cup {11, 1},
                                    !.ireg = @ \cup {2}])
       ELSE IF s2.fault # "none" THEN s2
       ELSE MscUpdateIrq([s2 EXCEPT !.ireg = IF s.cmd = 12 THEN @ \cup {1} ELSE @])

\* ingenic_msc_write(): the state after the write of data at addr.
MscRegWrite(s, addr, data, rlen) ==
    CASE addr = REG_CTRL ->
           LET d  == data \ {3}
               s1 == IF 3 \in data THEN MscReset(s) ELSE s
               s2 == [s1 EXCEPT !.stat = IF d \cap {0, 1} = {0} THEN @ \ {8}
                                         ELSE IF d \cap {0, 1} = {1} THEN @ \cup {8}
                                         ELSE @,
                                !.stop = @ \/ d \cap {4, 5, 6, 7, 14, 15} # {}]
           IN IF 2 \in d THEN MscStart(s2, rlen) ELSE s2
      [] addr = REG_CLKRT  -> [s EXCEPT !.clkrt = NumOf(data \cap (0..2))]
      [] addr = REG_CMDAT  -> [s EXCEPT !.cmdat = data \cap (0..17)]
      [] addr = REG_BLKLEN -> [s EXCEPT !.blklen = NumOf(data \cap Word16)]
      [] addr = REG_NOB    -> [s EXCEPT !.nob = NumOf(data \cap Word16)]
      [] addr = REG_IMASK  -> MscUpdateIrq([s EXCEPT !.imask = (data \cup {3, 4}) \cap Word16])
      [] addr = REG_IREG   -> MscUpdateIrq([s EXCEPT !.ireg = @ \ (data \cap {0, 1, 2})])
      [] addr = REG_CMD    -> [s EXCEPT !.cmd = NumOf(data \cap (0..5))]
      [] addr = REG_ARG    -> [s EXCEPT !.arg = NumOf(data)]
      [] addr = REG_LPM    -> [s EXCEPT !.lpm = data \cap {0}]
      [] OTHER -> [s EXCEPT !.stop = TRUE]

\* ingenic_msc_read(): the state after the read at addr (the data read
\* comes from the card and the response buffer and is not modelled).
MscRegRead(s, addr) ==
    CASE addr \in {REG_STAT, REG_CLKRT, REG_CMDAT, REG_IMASK, REG_IREG, REG_CMD,
                   REG_ARG, REG_LPM} -> s
      [] addr = REG_RES -> [s EXCEPT !.resp_offset = (@ + 1) % 8]
      [] addr = REG_RXFIFO ->
           MscUpdateRxFlags(IF s.data_offset # s.data_size
                            THEN [s EXCEPT !.data_offset = @ + 4]
                            ELSE [s EXCEPT !.stop = TRUE])
      [] OTHER -> [s EXCEPT !.stop = TRUE]

\* The state an operation starts from: nothing logged yet.
MscEntry == [msc EXCEPT !.stop = FALSE]

\* A guest write to an MSC register.
MscWrite(addr, data, rlen) ==
    /\ msc.fault = "none"
    /\ msc' = MscRegWrite(MscEntry, addr, data, rlen)
    /\ msc_op' = [op |-> "write", addr |-> addr]

\* A guest read of an MSC register.
MscRead(addr) ==
    /\ msc.fault = "none"
    /\ msc' = MscRegRead(MscEntry, addr)
    /\ msc_op' = [op |-> "read", addr |-> addr]

\* State after construction (zeroed object) and the reset at start-up.
MscInit(models) ==
    /\ \E m \in models :
          msc = MscReset([stat |-> {}, clkrt |-> 0, cmdat |-> {}, blklen |-> 0, nob |-> 0,
                          snob |-> 0, imask |-> {}, ireg |-> {}, cmd |-> 0, arg |-> 0,
                          lpm |-> {}, resp_offset |-> 0, data_offset |-> 0,
                          data_size |-> 0, prev_irq |-> {}, irq |-> FALSE,
                          dma_rx |-> FALSE, gpio_cd |-> FALSE, inserted |-> TRUE,
                          model |-> m, fault |-> "none", stop |-> FALSE])
    /\ msc_op = [op |-> "init", addr |-> 0]

\* Values the guest writes when the interrupt output is studied: resets,
\* command starts, mask and flag writes (0x44 decodes to no register).
MscIrqWrites ==
    ({REG_CTRL} \X {{3}, {2}, {3, 2}, {4}})
    \cup ({REG_CMDAT} \X {{0}, {0, 3}})
    \cup ({REG_BLKLEN} \X {{2}})
    \cup ({REG_NOB} \X {{1}})
    \cup ({REG_IMASK} \X {Word16, Word16 \ {0, 1, 2}, Word16 \ {13}})
    \cup ({REG_IREG} \X {{0, 1, 2}, {2, 13}})
    \cup ({REG_CMD} \X {BitsOf(12)})
    \cup ({68} \X {{0}})

MscIrqReads == {REG_STAT, REG_RXFIFO, REG_CTRL}

\* Response lengths the card answers with.
MscRlens == {0, 4, 16}

MscGuestWrite(writes) ==
    \E w \in writes :
        \E rlen \in IF w[1] = REG_CTRL /\ 2 \in w[2] THEN MscRlens ELSE {0} :
            MscWrite(w[1], w[2], rlen)
MscGuestRead(reads)   == \E addr \in reads : MscRead(addr)

MscNext(writes, reads) == MscGuestWrite(writes) \/ MscGuestRead(reads)

\* ========================================================================
\* GPIO port: hw/gpio/ingenic_gpio.c
\* ========================================================================

VARIABLES
    gpio,       \* the IngenicGpio object: registers, pending pin changes,
                \* interrupt output
    gpio_op,    \* the last GPIO operation
    gpio_in     \* the input lines: line is the set of lines at level 1, seen
                \* the levels each line has had since the last PIN read

gpio_vars == <<gpio, gpio_op, gpio_in>>

\* The pins explored, of the 32 of a port.
MaxPin == 0
GpioPins == 0..MaxPin

REG_PAPIN == 0
REG_PADAT == 16
REG_PADATS == 20
REG_PADATC == 24
REG_PAIM == 32
REG_PAIMS == 36
REG_PAIMC == 40
REG_PAPE == 48
REG_PAPES == 52
REG_PAPEC == 56
REG_PAFUN == 64
REG_PAFUNS == 68
REG_PAFUNC == 72
REG_PASEL == 80
REG_PASELS == 84
REG_PASELC == 88
REG_PADIR == 96
REG_PADIRS == 100
REG_PADIRC == 104
REG_PATRG == 112
REG_PATRGS == 116
REG_PATRGC == 120
REG_PAFLG == 128
REG_PAFLGC == 20

\* ingenic_gpio_update_irq(): flags from the pin values and the value
\* before, then the interrupt output.
GpioUpdateIrq(s, prev_pin) ==
    LET imask == s.sel \ s.fun
        edge  == s.trg
        dir   == s.dir
        flg   == s.flg
                 \cup (imask \cap edge \cap dir \cap (s.pin \ prev_pin))
                 \cup (((imask \cap edge) \ dir) \cap (prev_pin \ s.pin))
                 \cup ((imask \ edge) \cap dir \cap s.pin)
                 \cup (((imask \ edge) \ dir) \ s.pin)
        irq   == (flg \ s.im) # {}
    IN [s EXCEPT !.flg = flg,
                 !.prev_irq_level = irq,
                 !.irq = IF irq # s.prev_irq_level THEN irq ELSE @]

\* ingenic_gpio_read(): the value read is kept in gpio_op.val.
GpioRead(addr, size) ==
    LET bad      == size # 4 \/ addr % 4 # 0
        to_raise == gpio.pending_raise \ gpio.pin
        to_fall  == gpio.pending_fall \cap gpio.pin
        known    == addr \in {REG_PAPIN, REG_PADAT, REG_PAIM, REG_PAPE, REG_PAFUN,
                              REG_PASEL, REG_PADIR, REG_PATRG, REG_PAFLG}
        val      == CASE addr = REG_PAPIN -> gpio.pin
                      [] addr = REG_PADAT -> gpio.dat
                      [] addr = REG_PAIM -> gpio.im
                      [] addr = REG_PAPE -> gpio.pe
                      [] addr = REG_PAFUN -> gpio.fun
                      [] addr = REG_PASEL -> gpio.sel
                      [] addr = REG_PADIR -> gpio.dir
                      [] addr = REG_PATRG -> gpio.trg
                      [] addr = REG_PAFLG -> gpio.flg
                      [] OTHER -> {}
        pin_read == ~bad /\ addr = REG_PAPIN
    IN
    /\ gpio' = IF pin_read
               THEN [gpio EXCEPT !.pin = (@ \cup to_raise) \ to_fall,
                                 !.pending_raise = @ \ to_raise,
                                 !.pending_fall = @ \ to_fall]
               ELSE gpio
    /\ gpio_op' = [op |-> "read", addr |-> addr, data |-> {},
                   val |-> IF bad THEN {} ELSE val, stop |-> bad \/ ~known]
    /\ gpio_in' = IF pin_read
                  THEN [gpio_in EXCEPT !.seen = [n \in GpioPins |->
                                                   {IF n \in gpio_in.line THEN 1 ELSE 0}]]
                  ELSE gpio_in

\* ingenic_gpio_write()
GpioWrite(addr, data, size) ==
    LET bad == size # 4 \/ addr % 4 # 0
        known == addr \in {REG_PADATS, REG_PADATC, REG_PAIMS, REG_PAIMC, REG_PAPES,
                           REG_PAPEC, REG_PAFUNS, REG_PAFUNC, REG_PASELS, REG_PASELC,
                           REG_PADIRS, REG_PADIRC, REG_PATRGS, REG_PATRGC}
        s == CASE addr = REG_PADATS -> [gpio EXCEPT !.dat = @ \cup data, !.flg = @ \ data]
               [] addr = REG_PADATC -> [gpio EXCEPT !.dat = @ \ data]
               [] addr = REG_PAIMS -> [gpio EXCEPT !.im = @ \cup data]
               [] addr = REG_PAIMC -> [gpio EXCEPT !.im = @ \ data]
               [] addr = REG_PAPES -> [gpio EXCEPT !.pe = @ \cup data]
               [] addr = REG_PAPEC -> [gpio EXCEPT !.pe = @ \ data]
               [] addr = REG_PAFUNS -> [gpio EXCEPT !.fun = @ \cup data]
               [] addr = REG_PAFUNC -> [gpio EXCEPT !.fun = @ \ data]
               [] addr = REG_PASELS -> [gpio EXCEPT !.sel = @ \cup data]
               [] addr = REG_PASELC -> [gpio EXCEPT !.sel = @ \ data]
               [] addr = REG_PADIRS -> [gpio EXCEPT !.dir = @ \cup data]
               [] addr = REG_PADIRC -> [gpio EXCEPT !.dir = @ \ data]
               [] addr = REG_PATRGS -> [gpio EXCEPT !.trg = @ \cup data]
               [] addr = REG_PATRGC -> [gpio EXCEPT !.trg = @ \ data]
               [] OTHER -> gpio
    IN
    /\ gpio' = IF bad \/ ~known THEN gpio ELSE GpioUpdateIrq(s, s.pin)
    /\ gpio_op' = [op |-> "write", addr |-> addr, data |-> data, val |-> {},
                   stop |-> bad \/ ~known]
    /\ UNCHANGED gpio_in

\* ingenic_gpio_input_irq(): input line n is notified at level.
GpioInputIrq(n, level) ==
    LET s == [gpio EXCEPT !.pin = IF level = 1 THEN @ \cup {n} ELSE @ \ {n},
                          !.pending_raise = IF level = 1 THEN @ \cup {n} ELSE @,
                          !.pending_fall = IF level = 1 THEN @ ELSE @ \cup {n}]
    IN
    /\ gpio' = GpioUpdateIrq(s, gpio.pin)
    /\ gpio_op' = [op |-> "in", addr |-> n, data |-> {}, val |-> {}, stop |-> FALSE]
    /\ gpio_in' = [line |-> IF level = 1 THEN gpio_in.line \cup {n}
                                         ELSE gpio_in.line \ {n},
                   seen |-> [gpio_in.seen EXCEPT ![n] = @ \cup {level}]]

\* State after object creation (zeroed) and ingenic_gpio_reset() with the
\* default "reset" property (all ones); the input lines are at the levels
\* the reset value states.
GpioInit ==
    /\ gpio = [pin |-> GpioPins, dat |-> {}, im |-> GpioPins, pe |-> {}, fun |-> {},
               sel |-> {}, dir |-> {}, trg |-> {}, flg |-> {},
               pending_raise |-> {}, pending_fall |-> {},
               prev_irq_level |-> FALSE, irq |-> FALSE]
    /\ gpio_op = [op |-> "init", addr |-> 0, data |-> {}, val |-> {}, stop |-> FALSE]
    /\ gpio_in = [line |-> GpioPins, seen |-> [n \in GpioPins |-> {1}]]

\* Guest accesses and input line notifications: the pins are put in and out
\* of interrupt mode with every trigger, flags are cleared, PIN and FLG are
\* read.
GpioNext ==
    \/ \E addr \in {REG_PAFUNS, REG_PAFUNC, REG_PASELS, REG_PASELC, REG_PADIRS,
                     REG_PADIRC, REG_PATRGS, REG_PATRGC, REG_PAIMC, REG_PAFLGC} :
          \E data \in (SUBSET GpioPins) \ {{}} : GpioWrite(addr, data, 4)
    \/ \E w \in {<<REG_PAFLG, 4>>, <<REG_PAIMS, 2>>} : GpioWrite(w[1], GpioPins, w[2])
    \/ \E r \in {<<REG_PAPIN, 4>>, <<REG_PAFLG, 4>>, <<REG_PAPIN, 2>>, <<REG_PADATS, 4>>} :
          GpioRead(r[1], r[2])
    \/ \E n \in GpioPins, level \in {0, 1} : GpioInputIrq(n, level)

\* ========================================================================
\* Register decoding of the memory-mapped blocks
\* ========================================================================
\* What a handler does with an access, by the offset alone: "reg" when a
\* case of its switch takes the offset, "stop" when the handler logs the
\* access and requests a VM stop, "silent" when it does neither.

VARIABLE mmio

DecodeIn(addr, regs) == IF addr \in regs THEN "reg" ELSE "stop"

IntcDecode(rw, addr) ==
    IF rw = "read" THEN DecodeIn(addr, {REG_ICSR, REG_ICMR, REG_ICPR})
    ELSE DecodeIn(addr, {REG_ICMSR, REG_ICMCR, REG_ICPR})

\* PAPIN, PADAT, PAIM, PAPE, PAFUN, PASEL, PADIR, PATRG, PAFLG are read;
\* the set and clear registers of each are written.
GpioDecode(rw, addr, size) ==
    IF size # 4 \/ addr % 4 # 0 THEN "stop"
    ELSE IF rw = "read"
    THEN DecodeIn(addr, {\H00, \H10, \H20, \H30, \H40, \H50, \H60, \H70, \H80})
    ELSE DecodeIn(addr, {\H14, \H18, \H24, \H28, \H34, \H38, \H44, \H48,
                         \H54, \H58, \H64, \H68, \H74, \H78})

TcuDecode(rw, addr) ==
    IF addr >= \H40 /\ addr < \Ha0
    THEN DecodeIn(addr % 16, {REG_TDFR0 % 16, REG_TDHR0 % 16, REG_TCNT0 % 16,
                              REG_TCSR0 % 16})
    ELSE IF rw = "read"
    THEN DecodeIn(addr, {REG_TER, REG_TESR, REG_TECR, REG_TSR, REG_TFR, REG_TMR,
                         REG_OSTDR, REG_OSTCNT, REG_OSTCSR, REG_TSTR})
    ELSE DecodeIn(addr, {REG_TESR, REG_TECR, REG_TFSR, REG_TFCR, REG_TSSR, REG_TSCR,
                         REG_TMSR, REG_TMCR, REG_OSTDR, REG_OSTCNT, REG_OSTCSR,
                         REG_TSTSR, REG_TSTCR})

DmacDecode(rw, addr) ==
    IF addr <= \H2ff
    THEN IF (addr % 256) \div 32 >= INGENIC_DMAC_NUM_CH THEN "stop"
         ELSE IF addr % 256 >= \Hc0
         THEN DecodeIn(((addr % 256) \div 32) * 32, {REG_CH_DSD})
         ELSE DecodeIn(addr % 32, {REG_CH_DSA, REG_CH_DTA, REG_CH_DTC, REG_CH_DRT,
                                   REG_CH_DCS, REG_CH_DCM, REG_CH_DDA})
    ELSE IF addr <= \H4ff
    THEN IF rw = "read"
         THEN DecodeIn(addr % 256, {REG_DMAC, REG_DIRQP, REG_DDR, REG_DCKE})
         ELSE DecodeIn(addr % 256, {REG_DMAC, REG_DIRQP, REG_DDRS, REG_DCKE})
    ELSE "stop"

\* Read: STAT, CLKRT, CMDAT, IMASK, IREG, CMD, ARG, RES, RXFIFO, LPM.
\* Written: CTRL, CLKRT, CMDAT, BLKLEN, NOB, IMASK, IREG, CMD, ARG, LPM.
MscDecode(rw, addr) ==
    IF rw = "read"
    THEN DecodeIn(addr, {\H04, \H08, \H0c, \H24, \H28, \H2c, \H30, \H34, \H38, \H40})
    ELSE DecodeIn(addr, {\H00, \H08, \H0c, \H18, \H1c, \H24, \H28, \H2c, \H30, \H40})

I2cDecode(rw, addr) == DecodeIn(addr, {\H00, \H04, \H08, \H0c})

\* RTCCR, RTCSR, RTCSAR, RTCGR, HCR, HWFCR, HRCR, HWCR, HWRSR, HSPR.
RtcDecode(rw, addr) ==
    DecodeIn(addr, {\H00, \H04, \H08, \H0c, \H20, \H24, \H28, \H2c, \H30, \H34})

\* Read: BHCR, BHCNT, BHINT, BHERR0 ... BHERR3 (a case range), BHINTE.
\* Written: BHCSR, BHCCR, BHCNT, BHDR, BHINT, BHINTES, BHINTEC.
BchDecode(rw, addr) ==
    IF rw = "read"
    THEN DecodeIn(addr, {\H00, \H0c, \H24, \H38} \cup (\H28..\H34))
    ELSE DecodeIn(addr, {\H04, \H08, \H0c, \H10, \H24, \H3c, \H40})

\* The SDRAM and NAND ECC sub-blocks switch on the offset the controller's
\* handler hands them, which is the offset inside the controller's block.
EmcSdramDecode(rw, addr) == DecodeIn(addr, {\H00, \H04, \H08, \H0c, \H10, \H14})

EmcNandEccDecode(rw, addr) ==
    IF rw = "read"
    THEN DecodeIn(addr, {\H00, \H04, \H08, \H0c, \H10, \H14, \H18, \H1c, \H20,
                         \H24, \H28})
    ELSE DecodeIn(addr, {\H00, \H10, \H14} \cup (\H08..\H0f))

\* BCR, SMCR1..4, SACR1..4, NFCSR.
EmcStaticRegs == {\H00, \H14, \H18, \H1c, \H20, \H34, \H38, \H3c, \H40, \H50}


EmcReadDecode(addr, size) ==
    IF size # 4 \/ addr % 4 # 0 THEN "stop"
    ELSE IF addr < \H80 THEN DecodeIn(addr, EmcStaticRegs)
    ELSE IF addr < \H100 THEN EmcSdramDecode("read", addr)
    ELSE IF addr < \H200 THEN EmcNandEccDecode("read", addr)
    ELSE "silent"

EmcWriteDecode(addr) ==
    IF addr < \H80 THEN DecodeIn(addr, EmcStaticRegs)
    ELSE IF addr < \H100 THEN EmcSdramDecode("write", addr)
    ELSE IF addr < \H200 THEN EmcNandEccDecode("write", addr)
    ELSE EmcSdramDecode("write", addr)

MmioDevices == {"intc", "gpio", "tcu", "dmac", "msc", "i2c", "rtc", "bch", "emc"}

MmioDecode(dev, rw, addr, size) ==
    CASE dev = "intc" -> IntcDecode(rw, addr)
      [] dev = "gpio" -> GpioDecode(rw, addr, size)
      [] dev = "tcu"  -> TcuDecode(rw, addr)
      [] dev = "dmac" -> DmacDecode(rw, addr)
      [] dev = "msc"  -> MscDecode(rw, addr)
      [] dev = "i2c"  -> I2cDecode(rw, addr)
      [] dev = "rtc"  -> RtcDecode(rw, addr)
      [] dev = "bch"  -> BchDecode(rw, addr)
      [] dev = "emc"  -> IF rw = "read" THEN EmcReadDecode(addr, size)
                         ELSE EmcWriteDecode(addr)

\* The offsets and access sizes explored: every word of the first 0x44
\* bytes, and offsets in and beyond each block's further ranges.
MmioAddrs ==
    {4 * i : i \in 0..16}
    \cup {\H01, \H50, \H80, \H84, \Hc0, \He0, \Hf0, \H100, \H108, \H1fc, \H200,
          \H300, \H30c, \H500, \H8000}

MmioSizes == {1, 4}

\* The guest reads or writes a block at some offset.
MmioAccess(dev, rw, addr, size) ==
    mmio' = [dev |-> dev, rw |-> rw, addr |-> addr, size |-> size,
             out |-> MmioDecode(dev, rw, addr, size)]

MmioInit == mmio = [dev |-> "none", rw |-> "read", addr |-> 0, size |-> 4, out |-> "reg"]

MmioNext ==
    \E dev \in MmioDevices, rw \in {"read", "write"}, addr \in MmioAddrs,
       size \in MmioSizes : MmioAccess(dev, rw, addr, size)

\* ========================================================================
\* Specifications
\* ========================================================================

vars == <<intc_vars, tcu_vars, dmac_vars, guest, mmio, msc_vars, gpio_vars>>

\* The state at power-on of the interrupt controller, the timer unit (of
\* one of the given models), the MMC/SD controller, the GPIO port and the
\* register decoders.
PowerOn(models, msc_models) ==
    IntcInit /\ MmioInit /\ GpioInit /\ MscInit(msc_models) /\ TcuInit(models)

\* The interrupt controller under guest accesses, line changes and resets.
SpecIntc ==
    /\ PowerOn({MODEL_4755}, {MODEL_4755}) /\ DmacFreeInit
    /\ [][IntcNext /\ UNCHANGED <<tcu_vars, dmac_vars, guest, mmio, msc_vars, gpio_vars>>]_vars

\* The counting behaviour of the timer unit.
SpecTcu ==
    /\ PowerOn({MODEL_4755}, {MODEL_4755}) /\ DmacFreeInit
    /\ [][TcuNext(TcuTimingWrites, TcuTimingReads, MaxNow)
          /\ UNCHANGED <<intc_vars, dmac_vars, guest, mmio, msc_vars, gpio_vars>>]_vars

\* The interrupt outputs of the timer unit, for both interrupt groupings.
SpecTcuIrq ==
    /\ PowerOn({MODEL_4755, MODEL_4740}, {MODEL_4755}) /\ DmacFreeInit
    /\ [][TcuNext(TcuIrqWrites, TcuIrqReads, MaxNowIrq)
          /\ UNCHANGED <<intc_vars, dmac_vars, guest, mmio, msc_vars, gpio_vars>>]_vars

\* The DMA controller under free-running guest accesses.
SpecDmac ==
    /\ PowerOn({MODEL_4755}, {MODEL_4755}) /\ DmacFreeInit
    /\ [][DmacNext /\ UNCHANGED <<intc_vars, tcu_vars, mmio, msc_vars, gpio_vars>>]_vars

\* The start conditions of a DMA channel.
SpecDmacDcs ==
    /\ PowerOn({MODEL_4755}, {MODEL_4755}) /\ DmacFreeInit
    /\ [][DmacDcsNext /\ UNCHANGED <<intc_vars, tcu_vars, mmio, msc_vars, gpio_vars>>]_vars

\* The DMA controller driven by a guest program: direct transfers and
\* descriptor chains.
SpecDmacProg ==
    /\ PowerOn({MODEL_4755}, {MODEL_4755}) /\ GuestInit(DirectScenarios \cup ChainScenarios)
    /\ [][GuestNext /\ UNCHANGED <<intc_vars, tcu_vars, mmio, msc_vars, gpio_vars>>]_vars

\* Transfers paced by the MSC receive request.
SpecDmacMsc ==
    /\ PowerOn({MODEL_4755}, {MODEL_4755}) /\ GuestInit(MscScenarios)
    /\ [][GuestMscNext /\ UNCHANGED <<intc_vars, tcu_vars, mmio, msc_vars, gpio_vars>>]_vars

\* The GPIO port under guest accesses and input line changes.
SpecGpio ==
    /\ PowerOn({MODEL_4755}, {MODEL_4755}) /\ DmacFreeInit
    /\ [][GpioNext /\ UNCHANGED <<intc_vars, tcu_vars, dmac_vars, guest, mmio, msc_vars>>]_vars

\* The guest drivers that walk a descriptor chain, with the main loop
\* running every scheduled bottom half.
SpecDmacChain ==
    /\ PowerOn({MODEL_4755}, {MODEL_4755}) /\ GuestInit(ChainScenarios)
    /\ [][GuestNext /\ UNCHANGED <<intc_vars, tcu_vars, mmio, msc_vars, gpio_vars>>]_vars

\* Weak fairness of the bottom half, written out: the bottom half is enabled
\* exactly while it is scheduled (dmac.bh), and running it clears dmac.bh,
\* so this is WF_vars(GuestBh) with its enabling condition spelled out.
FairSpecDmacChain ==
    /\ SpecDmacChain
    /\ ([]<>(~dmac.bh) \/ []<><<GuestBh /\ UNCHANGED <<intc_vars, tcu_vars, mmio, msc_vars, gpio_vars>>>>_vars)

\* The interrupt output of the MMC/SD controller under guest accesses.
SpecMsc ==
    /\ PowerOn({MODEL_4755}, {MODEL_4755, MSC_MODEL_47FF}) /\ DmacFreeInit
    /\ [][MscNext(MscIrqWrites, MscIrqReads) /\ UNCHANGED <<intc_vars, tcu_vars, dmac_vars, guest, mmio, gpio_vars>>]_vars

\* Guest accesses at any offset of each register block.
SpecDecode ==
    /\ PowerOn({MODEL_4755}, {MODEL_4755}) /\ DmacFreeInit
    /\ [][MmioNext /\ UNCHANGED <<intc_vars, tcu_vars, dmac_vars, guest, msc_vars, gpio_vars>>]_vars

\* ========================================================================
\* Properties
\* ========================================================================

\* The count an ideal periodic counter shows k ticks after showing c0 with
\* period register F: modulo F+1 from inside the period, counting up from
\* beyond it.
CntAfter(c0, k, F) == IF c0 <= F THEN (c0 + k) % (F + 1) ELSE c0 + k

\* C3: a timer started with TDFR = F > 0 and TCNT = c <= F, and left alone
\* since, reads TCNT = (c + n) mod (F+1) where n is the number of whole clock
\* periods since the start, whatever reads and callbacks happened in between.
C3_PeriodArithmetic ==
    \A id \in 0..(INGENIC_TCU_MAX_TIMERS - 1) :
        ( /\ tcu.fault = "none"
          /\ tcu_op.op = "read"
          /\ tcu_op.addr = REG_TCNT0 + 16 * id
          /\ tcu_ref[id].valid
          /\ id \in tcu.ter )
        => tcu_op.val = CntAfter(tcu_ref[id].c0,
                                 ((now - tcu_ref[id].t0) * PeriodUnit)
                                     \div tcu.timer[id].clk_period,
                                 tcu.timer[id].top)

\* C4: every counter update flags every match it passes: if the counter
\* showed TDFR (TDHR) at the start of the update or after any of the ticks
\* it processed, the timer's FULL (HALF) flag is set in TFR when the
\* operation ends.
C4_NoMatchMissed ==
    tcu.fault = "none" =>
    \A j \in 1..Len(tcu.upd) :
        LET u == tcu.upd[j] IN
        \A k \in 0..u.d :
            /\ CntAfter(u.c0, k, u.top) = u.top => IrqTopMask(u.id) \subseteq tcu.tfr
            /\ CntAfter(u.c0, k, u.top) = u.comp => IrqCompMask(u.id) \subseteq tcu.tfr

\* C4 witness: a late callback processed several ticks at once and the FULL
\* match was neither at the first nor at the last count of the update.
C4_Witness ==
    /\ tcu.fault = "none"
    /\ tcu_op.op = "cb"
    /\ \E j \in 1..Len(tcu.upd) :
         LET u == tcu.upd[j] IN
         /\ u.enabled /\ u.d >= 2 /\ u.c0 # u.top
         /\ CntAfter(u.c0, u.d, u.top) # u.top
         /\ \E k \in 1..(u.d - 1) : CntAfter(u.c0, k, u.top) = u.top
         /\ IrqTopMask(u.id) \subseteq tcu.tfr

\* The TFR/TMR bits behind each interrupt output, per SoC model.
TcuIrqGroup(model, n) ==
    IF model = MODEL_4755
    THEN CASE n = 1 -> {15}
           [] n = 2 -> {5, 21}
           [] n = 3 -> (0..4) \cup (16..20)
    ELSE CASE n = 1 -> {0, 16}
           [] n = 2 -> {1, 17}
           [] n = 3 -> (2..7) \cup (18..23)

\* C5: each interrupt output is asserted exactly when an unmasked flag of
\* its group is set: irq[n] = ((TFR & ~TMR) & group n) != 0.
C5_IrqFollowsFlags ==
    tcu.fault = "none" =>
    \A n \in 1..3 :
        tcu.irq[n] = ((tcu.tfr \ tcu.tmr) \cap TcuIrqGroup(tcu.model, n) # {})

\* C6: ICPR = ICSR & ~ICMR in every state, and each operation has exactly
\* its effect: line n drives ICSR bit n, ICMSR sets and ICMCR clears the
\* written ICMR bits, a write to ICPR changes nothing.
C6_Pending == icpr = icsr \ icmr

C6_Effects ==
    [][ /\ (intc_op'.op = "irq" =>
              /\ (intc_op'.n \in icsr') = (intc_op'.level = 1)
              /\ icsr' \ {intc_op'.n} = icsr \ {intc_op'.n}
              /\ icmr' = icmr)
        /\ (intc_op'.op = "write" /\ intc_op'.n = REG_ICMSR =>
              icmr' = icmr \cup intc_op'.data /\ icsr' = icsr)
        /\ (intc_op'.op = "write" /\ intc_op'.n = REG_ICMCR =>
              icmr' = icmr \ intc_op'.data /\ icsr' = icsr)
        /\ (intc_op'.op = "write" /\ intc_op'.n = REG_ICPR =>
              icsr' = icsr /\ icmr' = icmr /\ icpr' = icpr /\ intc_irq' = intc_irq)
      ]_intc_vars

C6_IntcRegisters == []C6_Pending /\ C6_Effects

\* C6 witness: a source is pending after its mask bit was cleared by ICMCR
\* while another source is raised but still masked.
C6_Witness ==
    /\ intc_op.op = "write" /\ intc_op.n = REG_ICMCR
    /\ icpr # {} /\ icpr # icsr /\ icmr # Word32

\* C7: the output line is asserted exactly when ICSR & ~ICMR is nonzero.
C7_LineFollowsPending == intc_irq = (icsr \ icmr # {})

\* The channel the guest program drives, and whether the program has run
\* to its end and the bottom half has run since.
GuestCh == dmac.reg[guest.u].ch[guest.c]
GuestRan == guest.pc > Len(guest.prog) /\ dmac_ev.op = "bh"

\* The descriptor addresses of the guest's chain, in chain order.
ChainAddrs == [j \in 1..Len(guest.order) |->
                 [u |-> guest.u, c |-> guest.c, addr |-> DescBase + 16 * guest.order[j]]]

IsPrefix(a, b) == Len(a) <= Len(b) /\ \A i \in 1..Len(a) : a[i] = b[i]

\* C1, safety part: the descriptors fetched so far are the first ones of
\* the chain, in chain order, each once; a completed descriptor with LINK=1
\* leaves CT set.
C1_ChainOrder ==
    guest.kind = "chain" =>
        /\ IsPrefix(dmac.log, ChainAddrs)
        /\ \A i \in 1..Len(dmac_ev.trig) :
             (dmac_ev.trig[i].out = "done" /\ 0 \in dmac_ev.trig[i].pre.dcm)
                 => 1 \in GuestCh.dcs

C1_ChainStarted == guest.kind = "chain" /\ guest.pc > Len(guest.prog)

C1_ChainDone ==
    /\ dmac.log = ChainAddrs
    /\ dmac.state[guest.u][guest.c] = "Idle"
    /\ ~dmac.bh
    /\ 3 \in GuestCh.dcs
    /\ GuestCh.dtc = 0
    /\ (Len(guest.order) > 1 => 1 \in GuestCh.dcs)

\* C1: once the guest has enabled a channel on a chain of valid linked
\* descriptors, the bottom half eventually has fetched every descriptor
\* exactly once, in chain order, with CT set after each linked one, and the
\* channel is Idle with TT=1 and DTC=0.
C1_ChainWalk == []C1_ChainOrder /\ (C1_ChainStarted ~> C1_ChainDone)

\* C1 witness: a chain of MaxChain descriptors visited out of address order
\* has been walked to its end.
C1_Witness ==
    /\ guest.kind = "chain" /\ Len(guest.order) = MaxChain
    /\ guest.order[1] > guest.order[2]
    /\ C1_ChainDone

\* Bytes per transfer unit for each TSZ encoding, as the claim lists them.
UnitBytes(tsz) ==
    CASE tsz = 0 -> 4 [] tsz = 1 -> 1 [] tsz = 2 -> 2 [] tsz = 3 -> 16 [] tsz = 4 -> 32
      [] OTHER -> 0

\* A direct transfer the guest programmed as a valid memory-to-memory copy.
C2_Case ==
    /\ guest.kind = "direct" /\ GuestRan
    /\ guest.cfg.drt = REQ_AUTO
    /\ {23, 22} \subseteq guest.cfg.dcm /\ 5 \notin guest.cfg.dcm
    /\ Field(guest.cfg.dcm, 14, 2) # 3 /\ Field(guest.cfg.dcm, 12, 2) # 3
    /\ Field(guest.cfg.dcm, 8, 3) <= 4

C2_Bytes == guest.cfg.dtc * UnitBytes(Field(guest.cfg.dcm, 8, 3))
C2_Target == guest.cfg.dta..(guest.cfg.dta + C2_Bytes - 1)
C2_Source == guest.cfg.dsa..(guest.cfg.dsa + C2_Bytes - 1)

\* C2: a memory-to-memory transfer writes exactly the DTC x unit bytes from
\* DTA on, nothing else, leaves DTC = 0, and (source and target not
\* overlapping, source inside the memory explored) the target holds the
\* bytes the source held.
C2_MemToMem ==
    C2_Case =>
        /\ GuestCh.dtc = 0
        /\ Len(dmac_ev.trig) = 1
        /\ dmac_ev.trig[1].wr = C2_Target
        /\ \A a \in MemAddrs \ C2_Target : mem[a] = Image(<<>>)[a]
        /\ (C2_Source \cap C2_Target = {} /\ C2_Source \subseteq MemAddrs) =>
               \A a \in C2_Target \cap MemAddrs :
                   mem[a] = Image(<<>>)[guest.cfg.dsa + (a - guest.cfg.dta)]

\* C2 witness: 32 bytes (one unit of TSZ=4) were copied across several
\* buffers.
C2_Witness ==
    /\ C2_Case
    /\ C2_Bytes = 32 /\ C2_Bytes > BufLen
    /\ C2_Source \cap C2_Target = {} /\ C2_Target \subseteq MemAddrs
    /\ \A a \in C2_Target : mem[a] = DataByte(guest.cfg.dsa + (a - guest.cfg.dta))
    /\ mem[guest.cfg.dta] # Image(<<>>)[guest.cfg.dta]

\* C8, state part: DIRQP bit ch is (VIE and INV) or (TIE and TT) or AR of
\* channel ch, and each unit's interrupt line is asserted exactly when its
\* DIRQP is non-zero.
C8_Pending ==
    \A u \in DmacUnits :
        /\ \A c \in DmacChans :
             LET ch == dmac.reg[u].ch[c] IN
             (c \in dmac.reg[u].dirqp) =
                 ((2 \in ch.dcm /\ 6 \in ch.dcs) \/ (1 \in ch.dcm /\ 3 \in ch.dcs)
                  \/ 4 \in ch.dcs)
        /\ dmac.reg[u].dirqp \subseteq DmacChans
        /\ dmac.irq[u] = (dmac.reg[u].dirqp # {})

\* C8, DIRQP writes: a guest write to DIRQP changes neither DIRQP nor the
\* interrupt lines.
C8_DirqpReadOnly ==
    [][\A u \in DmacUnits :
          (\E data \in SUBSET {0, 5} : DmacWrite(768 + 256 * u + REG_DIRQP, data))
              => (dmac'.reg = dmac.reg /\ dmac'.irq = dmac.irq)]_vars

C10_Case ==
    /\ guest.kind = "direct" /\ GuestRan
    /\ \/ 5 \in guest.cfg.dcm
       \/ Field(guest.cfg.dcm, 14, 2) = 3
       \/ Field(guest.cfg.dcm, 12, 2) = 3
       \/ Field(guest.cfg.dcm, 8, 3) >= 5
       \/ guest.cfg.drt \notin {REQ_AUTO, REQ_NAND, REQ_MSC0_TX, REQ_MSC0_RX, REQ_BCH_DEC}

\* C10: a channel started in stride mode, with a reserved port width or
\* transfer size, or with an unsupported request type makes the model
\* request a VM stop; memory, DTC and DCS are as before, no interrupt is
\* pending or asserted, and the channel is Idle.
C10_InvalidModeRejected ==
    C10_Case =>
        /\ dmac_ev.stop
        /\ mem = Image(<<>>)
        /\ \A i \in 1..Len(dmac_ev.trig) : dmac_ev.trig[i].wr = {}
        /\ GuestCh.dtc = guest.cfg.dtc
        /\ GuestCh.dcs = {31, 0}
        /\ dmac.reg[guest.u].dirqp = {} /\ ~dmac.irq[guest.u]
        /\ dmac.state[guest.u][guest.c] = "Idle"

\* C10 witness: a stride-mode transfer of a non-zero count was refused.
C10_Witness ==
    /\ C10_Case
    /\ 5 \in guest.cfg.dcm /\ Field(guest.cfg.dcm, 8, 3) <= 4 /\ guest.cfg.dtc > 0
    /\ guest.cfg.drt = REQ_AUTO
    /\ dmac_ev.stop /\ Len(dmac_ev.trig) = 1

\* C9: an access at an offset that no case of the block's handler takes is
\* logged and requests a VM stop; none is accepted silently.
C9_UnknownOffsetStops == mmio.out # "silent"

\* The registers a transfer works from and the channel states.
C11_Transfer(d) ==
    [u \in DmacUnits |-> [c \in DmacChans |->
        [dsa |-> d.reg[u].ch[c].dsa, dta |-> d.reg[u].ch[c].dta,
         dtc |-> d.reg[u].ch[c].dtc, dda |-> d.reg[u].ch[c].dda]]]

\* C11: a step that is not the bottom half (a register write or read, a
\* request notification) fetches no descriptor, runs no transfer and leaves
\* guest memory alone; a request notification leaves
\* the addresses, counts and descriptor pointers alone, and whenever a step
\* moves a channel to the Desc or Txfr state the bottom half is scheduled.
C11_NoReentrantDma ==
    [][dmac_ev'.op # "bh" =>
          /\ mem' = mem
          /\ dmac_ev'.fetched = <<>> /\ dmac_ev'.trig = <<>>
          /\ dmac_ev'.op = "req" => C11_Transfer(dmac') = C11_Transfer(dmac)
          /\ (\E u \in DmacUnits, c \in DmacChans :
                  dmac'.state[u][c] # dmac.state[u][c] /\ dmac'.state[u][c] # "Idle")
                => dmac'.bh]_vars

\* C11 witness: a DCS write has put a channel with a non-zero count in the
\* Desc state and scheduled the bottom half; nothing was fetched or moved.
C11_Witness ==
    /\ dmac_ev.op = "write" /\ dmac.bh
    /\ dmac.state[0][0] = "Desc" /\ dmac.reg[0].ch[0].dtc > 0
    /\ dmac.reg[0].ch[0].dda = DescBase
    /\ dmac_ev.fetched = <<>> /\ dmac_ev.trig = <<>> /\ mem = FreeImage

\* C12: after every guest write to an MSC register the interrupt output is
\* asserted exactly when IREG & ~IMASK is non-zero.
C12_MscIrq ==
    (msc_op.op = "write" /\ msc.fault = "none") => (msc.irq = (msc.ireg \ msc.imask # {}))

\* The time in ns by which tick number n of a timer (counted from its time
\* base) has happened.
C13_TickNs(tm, n) ==
    tm.qts_start_ns + (n * tm.clk_period + PeriodUnit - 1) \div PeriodUnit

\* The numbers of ticks from now after which the counter of a running timer
\* equals TDFR or TDHR.
C13_MatchTicks(tm) ==
    {k \in 1..(tm.top + tm.comp + 1) : CntAfter(tm.cnt, k, tm.top) \in {tm.top, tm.comp}}

\* C13: while a timer is enabled with TDFR > 0 (and a running clock), its
\* host timer is armed, for a time not later than any coming tick at which
\* the counter equals TDFR or TDHR.
C13_ArmedForNextMatch ==
    tcu.fault = "none" =>
    \A id \in TimerIds :
        LET tm == tcu.timer[id] IN
        (id \in tcu.ter /\ tm.enabled /\ tm.top > 0 /\ tm.clk_period > 0) =>
            /\ tm.qts # NoTimer
            /\ \A k \in C13_MatchTicks(tm) : tm.qts <= C13_TickNs(tm, tm.clk_ticks + k)

\* C14: a timer whose TER bit is 0 (never enabled, or disabled by a write
\* to TECR and not re-enabled through TESR since) is stopped: it is not
\* counting and its host timer is not armed.
C14_DisabledTimerStopped ==
    tcu.fault = "none" =>
    \A id \in TimerIds :
        id \notin tcu.ter => (~tcu.timer[id].enabled /\ tcu.timer[id].qts = NoTimer)

\* The start condition after a step: DMAE=1, HLT=0, AR=0 in DMAC and CTE=1,
\* HLT=0, TT=0, AR=0, INV=0 in the DCS of channel c of unit u.
C15_MayRun(d, u, c) ==
    /\ 0 \in d.reg[u].dmac /\ 3 \notin d.reg[u].dmac /\ 2 \notin d.reg[u].dmac
    /\ 0 \in d.reg[u].ch[c].dcs
    /\ d.reg[u].ch[c].dcs \cap {2, 3, 4, 6} = {}

\* C15: a write to DCS of channel 0.0 leaves the channel in Desc with the
\* bottom half scheduled if the start condition holds after the write, and
\* otherwise leaves it Idle without scheduling the bottom half; and a run of
\* the bottom half fetches and transfers only for channels that were not
\* Idle.
C15_DcsStart ==
    [][ /\ \A data \in DmacDcsValues :
              DmacWrite(ChAddr(0, 0, REG_CH_DCS), data) =>
                  /\ dmac'.reg[0].ch[0].dcs = data
                  /\ IF C15_MayRun(dmac', 0, 0)
                     THEN dmac'.state[0][0] = "Desc" /\ dmac'.bh
                     ELSE dmac'.state[0][0] = "Idle" /\ dmac'.bh = dmac.bh
                  /\ mem' = mem /\ dmac_ev'.trig = <<>> /\ dmac_ev'.fetched = <<>>
        /\ dmac_ev'.op = "bh" =>
              /\ \A i \in 1..Len(dmac_ev'.trig) :
                    dmac.state[dmac_ev'.trig[i].u][dmac_ev'.trig[i].c] # "Idle"
              /\ \A i \in 1..Len(dmac_ev'.fetched) :
                    dmac.state[dmac_ev'.fetched[i].u][dmac_ev'.fetched[i].c] = "Desc"
      ]_vars

\* C15 witness: the channel was told to start with the descriptor-invalid
\* bit set in the written DCS and was left Idle, the unit being enabled.
C15_Witness ==
    /\ dmac_ev.op = "write"
    /\ dmac.reg[0].dmac = {0}
    /\ dmac.reg[0].ch[0].dcs = {0, 6}
    /\ dmac.state[0][0] = "Idle" /\ ~dmac.bh

\* The events of the last bottom-half run that are transfers of channel c
\* of unit u.
C16_Transfers(u, c) ==
    {i \in 1..Len(dmac_ev.trig) : dmac_ev.trig[i].u = u /\ dmac_ev.trig[i].c = c}

\* C16: when the bottom half has fetched a descriptor with VM=1 and V=0,
\* the channel has DCS.INV set, is Idle, and no transfer ran for it; when it
\* has fetched one with VM=0 for an auto-request channel, the transfer ran.
C16_InvalidDescriptorSkipped ==
    dmac_ev.op = "bh" =>
    \A i \in 1..Len(dmac_ev.fetched) :
        LET f   == dmac_ev.fetched[i]
            dcm == MemWordBits(mem, f.addr)
        IN /\ (3 \in dcm /\ 4 \notin dcm) =>
                 /\ 6 \in dmac.reg[f.u].ch[f.c].dcs
                 /\ dmac.state[f.u][f.c] = "Idle"
                 /\ C16_Transfers(f.u, f.c) = {}
           /\ (3 \notin dcm /\ dmac.reg[f.u].ch[f.c].drt = REQ_AUTO) =>
                 C16_Transfers(f.u, f.c) # {}

\* C17: no transfer runs for a channel that was started in descriptor mode
\* (or linked to a next descriptor) and has not fetched that descriptor
\* yet, whatever request notifications arrived in between.
C17_FetchBeforeTransfer ==
    \A i \in 1..Len(dmac_ev.trig) : ~dmac_ev.trig[i].stale

\* C18: in a transfer paced by the MSC, once the driver has started the
\* channel, every burst writes the bytes that follow those of the bursts
\* before it (the target range starts at DTA plus the bytes already moved),
\* DTC after the burst is the number of units still to move, and TT is set
\* exactly when DTC has reached 0.
C18_MscBursts ==
    (guest.kind = "msc" /\ guest.pc > Len(guest.prog)) =>
        LET unit == UnitBytes(Field(guest.cfg.dcm, 8, 3)) IN
        /\ \A i \in 1..Len(dmac_ev.trig) :
              LET e     == dmac_ev.trig[i]
                  moved == (guest.cfg.dtc - e.pre.dtc) * unit
                  first == guest.cfg.dta + moved
              IN (e.u = guest.u /\ e.c = guest.c) =>
                     /\ e.wr = first..(first + Cardinality(e.wr) - 1)
                     /\ GuestCh.dtc * unit = e.pre.dtc * unit - Cardinality(e.wr)
        /\ (3 \in GuestCh.dcs) = (GuestCh.dtc = 0)

\* C19: a notification of the MSC receive request line changes a channel
\* (its state and registers) only if the channel is enabled, its DRT is the
\* line's request number and the notification is a rising edge (level 1
\* after level 0); when no channel sees such an edge, the bottom half is not
\* scheduled either.
C19_Edge(u, c) ==
    /\ DmacChannelIsEnabled(DmacEntry, u, c)
    /\ dmac.reg[u].ch[c].drt = REQ_MSC0_RX
    /\ guest.line = 0 /\ guest'.line = 1

C19_RisingEdgeOnly ==
    [][dmac_ev'.op = "req" =>
          /\ \A u \in DmacUnits, c \in DmacChans :
                ~C19_Edge(u, c) => /\ dmac'.state[u][c] = dmac.state[u][c]
                                   /\ dmac'.reg[u].ch[c] = dmac.reg[u].ch[c]
          /\ (\A u \in DmacUnits, c \in DmacChans : ~C19_Edge(u, c))
                => dmac'.bh = dmac.bh]_vars

\* C20: the timer unit never divides by a clock period of 0, whatever the
\* guest writes and reads.
C20_NoDivideByZero == tcu.fault # "div0"

\* C21: a write to TESR or TECR leaves alone every timer whose bit is 0 in
\* the written value: its enabled state, TCNT, tick time base and armed host
\* timer are what they were.
C21_TimerKept(id) ==
    /\ tcu'.timer[id].enabled = tcu.timer[id].enabled
    /\ tcu'.timer[id].cnt = tcu.timer[id].cnt
    /\ tcu'.timer[id].qts_start_ns = tcu.timer[id].qts_start_ns
    /\ tcu'.timer[id].clk_ticks = tcu.timer[id].clk_ticks
    /\ tcu'.timer[id].qts = tcu.timer[id].qts

C21_EnableWriteFrame ==
    [][\A w \in TcuTimingWrites :
          (w[1] \in {REG_TESR, REG_TECR} /\ TcuWrite(w[1], w[2]) /\ tcu'.fault = "none")
              => \A id \in TimerIds \ w[2] : C21_TimerKept(id)]_vars

\* C22: while TER bit i is 0 (before and after the access), a guest read or
\* a guest write other than one to TFSR sets neither TFR bit i nor bit 16+i.
C22_FlagsOnlyWhenRunning ==
    [][(tcu_op'.op \in {"write", "read"} /\ tcu_op'.addr # REG_TFSR) =>
          \A i \in TimerIds \ {OST} :
              (i \notin tcu.ter /\ i \notin tcu'.ter)
                  => (tcu'.tfr \cap {i, 16 + i}) \subseteq tcu.tfr]_vars

\* C23: a timer with TDFR = 0 does not tick: while it is enabled with
\* TDFR = 0, a read or the passing of time leaves TCNT at its value, and
\* enabling it with TDFR = 0 leaves no host timer armed.
C23_Stalled(id) ==
    /\ id \in tcu.ter /\ tcu.timer[id].enabled /\ tcu.timer[id].top = 0
    /\ id \in tcu'.ter /\ tcu'.timer[id].enabled /\ tcu'.timer[id].top = 0

C23_ZeroFullDoesNotTick ==
    [][\A id \in TimerIds \ {OST} :
          /\ (tcu_op'.op \in {"read", "tick"} /\ tcu'.fault = "none" /\ C23_Stalled(id))
                => tcu'.timer[id].cnt = tcu.timer[id].cnt
          /\ (tcu_op'.op = "write" /\ tcu_op'.addr = REG_TESR /\ tcu'.fault = "none"
                 /\ ~tcu.timer[id].enabled /\ tcu'.timer[id].enabled
                 /\ tcu'.timer[id].top = 0)
                => tcu'.timer[id].qts = NoTimer]_vars

\* C24: FLG bit n becomes set only in a step after which pin n is in
\* interrupt mode (FUN = 0, SEL = 1) and in which its programmed trigger
\* occurs on the input line (a rising or falling edge notified in this step,
\* or the line being at the high or low level); a set bit is cleared only by
\* a write to FLGC with bit n set.
C24_Trigger(n) ==
    LET edge == gpio_op'.op = "in" /\ gpio_op'.addr = n IN
    CASE n \in gpio'.trg /\ n \in gpio'.dir ->
           edge /\ n \notin gpio_in.line /\ n \in gpio_in'.line
      [] n \in gpio'.trg /\ n \notin gpio'.dir ->
           edge /\ n \in gpio_in.line /\ n \notin gpio_in'.line
      [] n \notin gpio'.trg /\ n \in gpio'.dir -> n \in gpio_in'.line
      [] OTHER -> n \notin gpio_in'.line

C24_FlagByTriggerOnly ==
    [][\A n \in GpioPins :
          /\ (n \notin gpio.flg /\ n \in gpio'.flg)
                => (n \notin gpio'.fun /\ n \in gpio'.sel /\ C24_Trigger(n))
          /\ (n \in gpio.flg /\ n \notin gpio'.flg)
                => (gpio_op'.op = "write" /\ gpio_op'.addr = REG_PAFLGC
                      /\ n \in gpio_op'.data)]_vars

\* C25: every bit a PIN read returns is a level the input line has had
\* since the PIN read before (or had at that read).
C25_PinReadReportsSeenLevel ==
    [][(gpio_op'.op = "read" /\ gpio_op'.addr = REG_PAPIN /\ ~gpio_op'.stop) =>
          \A n \in GpioPins :
              (IF n \in gpio_op'.val THEN 1 ELSE 0) \in gpio_in.seen[n]]_vars

\* C26: the MMC/SD controller never divides by a block length of 0,
\* whatever the guest writes and reads.
C26_MscNoDivideByZero == msc.fault # "div0"

\* C27: a write at a DSD offset stores the value in a DSD register of the
\* unit and requests no VM stop, and a read at a DSD offset requests no VM
\* stop.
C27_DsdAccessible ==
    [][\A addr \in DmacDsdAddrs :
          /\ DmacWrite(addr, {0}) =>
                /\ ~dmac_ev'.stop
                /\ \E c \in DmacChans : dmac'.reg[addr \div 256].ch[c].dsd = 1
          /\ DmacRead(addr) => ~dmac_ev'.stop]_vars

====
